---- MODULE Spec2Model ----
(***************************************************************************)
(* Model of loot_core: seeded item generation (generator.rs), the currency *)
(* engine (currency.rs) and replay / reconstruction.                       *)
(*                                                                         *)
(* Conventions                                                             *)
(*   Option<T>      None is <<>>, Some(x) is <<x>>                         *)
(*   Vec<T>         a sequence; Vec<Tag> / Vec<ItemClass> that the code    *)
(*                  only queries with contains() are sets                  *)
(*   String names   sequences of words (a rare name is two words)          *)
(*   f32 influence  a fraction [num, den]                                  *)
(*   ChaCha8Rng     [seed, pos]: the stream is a fixed function of the     *)
(*                  seed, pos counts the 32-bit words consumed             *)
(*   HashMap        keyed lookup is a function; iteration (values()) goes  *)
(*                  through an order that is not specified by the table    *)
(*                  contents: the variable order holds the order of the    *)
(*                  Generator's affix table                                *)
(*   panic          a result with err = "Panic"                            *)
(***************************************************************************)
EXTENDS Integers, Sequences, FiniteSets, TLC

(***************************************************************************)
(* Bounds                                                                  *)
(***************************************************************************)
MaxSeed == 2
MaxOps == 2
MaxReconOps == 2

(* the codec: operations per StoredItem, items per collection, and the     *)
(* longest encoding in which one byte is overwritten, the longest in which *)
(* two are                                                                 *)
MaxStoredOps == 2
MaxItems == 2
MaxPatchLen == 48
MaxPatchAgainLen == 32

(* calls each worker makes on the shared Generator *)
MaxWorkerCalls == 2

(* seeds 0..MaxShapeSeed for generate over base types of every shape *)
MaxShapeSeed == 7

Seeds == 0..MaxSeed

(***************************************************************************)
(* Option                                                                  *)
(***************************************************************************)
None == <<>>
Some(x) == <<x>>
IsSome(o) == o # <<>>
Unwrap(o) == o[1]

RollRange(lo, hi) == [min |-> lo, max |-> hi]

(***************************************************************************)
(* types.rs                                                                *)
(***************************************************************************)
Rarities == {"normal", "magic", "rare", "unique"}

max_prefixes(rarity) ==
    CASE rarity = "normal" -> 0
      [] rarity = "magic" -> 1
      [] rarity = "rare" -> 3
      [] rarity = "unique" -> 0

max_suffixes(rarity) ==
    CASE rarity = "normal" -> 0
      [] rarity = "magic" -> 1
      [] rarity = "rare" -> 3
      [] rarity = "unique" -> 0

(***************************************************************************)
(* The Config value the Generator holds (config.rs).  One fixed table      *)
(* content; the tables are chosen so that every branch of the engine is    *)
(* exercised.                                                              *)
(***************************************************************************)
Tier(t, w, lo, hi, mv, ilvl) ==
    [tier |-> t, weight |-> w, min |-> lo, max |-> hi, max_value |-> mv, min_ilvl |-> ilvl]

BaseTypes ==
    [id \in {"iron_sword", "leather_cap"} |->
        IF id = "iron_sword"
        THEN [id |-> "iron_sword", name |-> <<"Iron Sword">>, class |-> "one_hand_sword",
              tags |-> {"weapon", "melee"},
              implicit |-> Some([stat |-> "accuracy", min |-> 1, max |-> 3]),
              defenses |-> None,
              damage |-> Some(<<[damage_type |-> "physical", min |-> 2, max |-> 5]>>),
              requirements |-> [level |-> 10]]
        ELSE [id |-> "leather_cap", name |-> <<"Leather Cap">>, class |-> "helmet",
              tags |-> {"armour"},
              implicit |-> None,
              defenses |-> Some([armour |-> Some(RollRange(2, 4)),
                                 evasion |-> None,
                                 energy_shield |-> Some(RollRange(1, 2))]),
              damage |-> None,
              requirements |-> [level |-> 1]]]

AffixIds == {"a_flaming", "b_sturdy", "c_swift", "d_warding", "e_sage", "f_hollow"}

Affixes ==
    [id \in AffixIds |->
        CASE id = "a_flaming" ->
               [id |-> id, affix_type |-> "prefix", stat |-> "added_fire_damage",
                scope |-> "local", tags |-> {"weapon"}, allowed_classes |-> {"one_hand_sword"},
                tiers |-> <<Tier(1, 1, 5, 6, Some(RollRange(8, 9)), 20),
                            Tier(2, 2, 1, 2, Some(RollRange(3, 4)), 0)>>]
          [] id = "b_sturdy" ->
               [id |-> id, affix_type |-> "prefix", stat |-> "added_life",
                scope |-> "global", tags |-> {}, allowed_classes |-> {},
                tiers |-> <<Tier(1, 1, 5, 8, None, 5),
                            Tier(2, 1, 1, 4, None, 0)>>]
          [] id = "c_swift" ->
               [id |-> id, affix_type |-> "suffix", stat |-> "increased_attack_speed",
                scope |-> "local", tags |-> {"melee", "weapon"}, allowed_classes |-> {},
                tiers |-> <<Tier(1, 2, 1, 2, None, 0)>>]
          [] id = "d_warding" ->
               [id |-> id, affix_type |-> "suffix", stat |-> "fire_resistance",
                scope |-> "global", tags |-> {"armour"}, allowed_classes |-> {"helmet"},
                tiers |-> <<Tier(1, 1, 3, 4, None, 40),
                            Tier(2, 3, 1, 2, None, 0)>>]
          [] id = "e_sage" ->
               [id |-> id, affix_type |-> "suffix", stat |-> "added_mana",
                scope |-> "global", tags |-> {}, allowed_classes |-> {},
                tiers |-> <<Tier(1, 1, 2, 3, None, 5)>>]
          [] id = "f_hollow" ->
               [id |-> id, affix_type |-> "suffix", stat |-> "item_rarity",
                scope |-> "global", tags |-> {}, allowed_classes |-> {},
                tiers |-> <<Tier(1, 0, 1, 1, None, 0)>>]]

AffixPools ==
    [id \in {"weapon_basic", "armour_basic", "hollow_basic"} |->
        IF id = "weapon_basic"
        THEN [id |-> id, affixes |-> <<"a_flaming", "b_sturdy", "c_swift", "e_sage", "missing_affix">>]
        ELSE IF id = "armour_basic"
        THEN [id |-> id, affixes |-> <<"b_sturdy", "d_warding", "e_sage">>]
        ELSE [id |-> id, affixes |-> <<"f_hollow">>]]

SpecificAffix(id, tier, weight) == [id |-> id, tier |-> tier, weight |-> weight]

NoEffects ==
    [set_rarity |-> None, clear_affixes |-> FALSE, add_affixes |-> None,
     add_specific_affix |-> <<>>, remove_affixes |-> None, reroll_affixes |-> None,
     try_unique |-> FALSE, affix_pools |-> <<>>]

NoRequirements == [rarities |-> {}, has_affix |-> FALSE, has_affix_slot |-> FALSE]

BothPools == <<"weapon_basic", "armour_basic", "missing_pool">>

CurrencyIds ==
    {"transmute", "alchemy", "augment", "scour", "annul", "chaos", "imbue",
     "catalyst", "degrade", "shatter", "blank", "wild", "enchant", "brand",
     "purge", "swap", "mix", "grant", "forge", "wipe"}

Currencies ==
    [id \in CurrencyIds |->
        CASE id = "transmute" ->
               [id |-> id,
                requires |-> [rarities |-> {"normal"}, has_affix |-> FALSE, has_affix_slot |-> TRUE],
                effects |-> [NoEffects EXCEPT !.set_rarity = Some("magic"),
                                              !.add_affixes = Some([min |-> 1, max |-> 1]),
                                              !.affix_pools = BothPools]]
          [] id = "alchemy" ->
               [id |-> id,
                requires |-> [rarities |-> {"normal"}, has_affix |-> FALSE, has_affix_slot |-> FALSE],
                effects |-> [NoEffects EXCEPT !.set_rarity = Some("rare"),
                                              !.add_affixes = Some([min |-> 3, max |-> 4]),
                                              !.affix_pools = BothPools]]
          [] id = "augment" ->
               [id |-> id,
                requires |-> [rarities |-> {"magic", "rare"}, has_affix |-> FALSE, has_affix_slot |-> TRUE],
                effects |-> [NoEffects EXCEPT !.add_affixes = Some([min |-> 1, max |-> 1]),
                                              !.affix_pools = BothPools]]
          [] id = "scour" ->
               [id |-> id,
                requires |-> [rarities |-> {"magic", "rare"}, has_affix |-> FALSE, has_affix_slot |-> FALSE],
                effects |-> [NoEffects EXCEPT !.set_rarity = Some("normal"),
                                              !.clear_affixes = TRUE]]
          [] id = "annul" ->
               [id |-> id,
                requires |-> [rarities |-> {}, has_affix |-> TRUE, has_affix_slot |-> FALSE],
                effects |-> [NoEffects EXCEPT !.remove_affixes = Some(1)]]
          [] id = "chaos" ->
               [id |-> id,
                requires |-> [rarities |-> {"magic", "rare"}, has_affix |-> TRUE, has_affix_slot |-> FALSE],
                effects |-> [NoEffects EXCEPT !.reroll_affixes = Some(1),
                                              !.affix_pools = <<"weapon_basic">>]]
          [] id = "imbue" ->
               [id |-> id,
                requires |-> [rarities |-> {"normal", "magic"}, has_affix |-> FALSE, has_affix_slot |-> FALSE],
                effects |-> [NoEffects EXCEPT !.set_rarity = Some("magic"),
                                              !.add_specific_affix =
                                                  <<SpecificAffix("a_flaming", Some(1), 100),
                                                    SpecificAffix("d_warding", None, 50),
                                                    SpecificAffix("e_sage", Some(7), 50),
                                                    SpecificAffix("missing_affix", None, 100)>>]]
          [] id = "catalyst" ->
               [id |-> id,
                requires |-> [rarities |-> {"magic", "rare"}, has_affix |-> FALSE, has_affix_slot |-> FALSE],
                effects |-> [NoEffects EXCEPT !.try_unique = TRUE]]
          [] id = "degrade" ->
               [id |-> id,
                requires |-> [rarities |-> {"rare", "unique"}, has_affix |-> FALSE, has_affix_slot |-> FALSE],
                effects |-> [NoEffects EXCEPT !.set_rarity = Some("magic")]]
          [] id = "shatter" ->
               [id |-> id,
                requires |-> NoRequirements,
                effects |-> [NoEffects EXCEPT !.set_rarity = Some("rare"),
                                              !.remove_affixes = Some(2)]]
          [] id = "blank" ->
               [id |-> id, requires |-> NoRequirements, effects |-> NoEffects]
          [] id = "enchant" ->
               [id |-> id,
                requires |-> [rarities |-> {"normal"}, has_affix |-> FALSE, has_affix_slot |-> TRUE],
                effects |-> [NoEffects EXCEPT !.set_rarity = Some("magic"),
                                              !.add_affixes = Some([min |-> 2, max |-> 2]),
                                              !.affix_pools = BothPools]]
          [] id = "brand" ->
               [id |-> id,
                requires |-> NoRequirements,
                effects |-> [NoEffects EXCEPT !.set_rarity = Some("rare"),
                                              !.add_specific_affix =
                                                  <<SpecificAffix("d_warding", None, 50)>>]]
          [] id = "wipe" ->
               [id |-> id, requires |-> NoRequirements,
                effects |-> [NoEffects EXCEPT !.clear_affixes = TRUE]]
          [] id = "purge" ->
               [id |-> id,
                requires |-> [rarities |-> {}, has_affix |-> TRUE, has_affix_slot |-> FALSE],
                effects |-> [NoEffects EXCEPT !.clear_affixes = TRUE,
                                              !.remove_affixes = Some(1)]]
          [] id = "swap" ->
               [id |-> id,
                requires |-> [rarities |-> {"magic"}, has_affix |-> TRUE, has_affix_slot |-> FALSE],
                effects |-> [NoEffects EXCEPT !.remove_affixes = Some(1),
                                              !.reroll_affixes = Some(1),
                                              !.affix_pools = <<"weapon_basic">>]]
          [] id = "mix" ->
               [id |-> id,
                requires |-> [rarities |-> {"normal"}, has_affix |-> FALSE, has_affix_slot |-> FALSE],
                effects |-> [NoEffects EXCEPT !.set_rarity = Some("magic"),
                                              !.reroll_affixes = Some(1),
                                              !.add_affixes = Some([min |-> 1, max |-> 1]),
                                              !.affix_pools = BothPools]]
          [] id = "grant" ->
               [id |-> id,
                requires |-> [rarities |-> {"normal"}, has_affix |-> FALSE, has_affix_slot |-> FALSE],
                effects |-> [NoEffects EXCEPT !.set_rarity = Some("rare"),
                                              !.add_affixes = Some([min |-> 1, max |-> 1]),
                                              !.add_specific_affix =
                                                  <<SpecificAffix("e_sage", None, 100)>>,
                                              !.affix_pools = BothPools]]
          [] id = "forge" ->
               [id |-> id,
                requires |-> [rarities |-> {"normal"}, has_affix |-> FALSE, has_affix_slot |-> FALSE],
                effects |-> [NoEffects EXCEPT !.set_rarity = Some("magic"),
                                              !.add_specific_affix =
                                                  <<SpecificAffix("a_flaming", None, 100)>>,
                                              !.try_unique = TRUE]]
          [] id = "wild" ->
               [id |-> id,
                requires |-> [rarities |-> {"magic"}, has_affix |-> FALSE, has_affix_slot |-> FALSE],
                effects |-> [NoEffects EXCEPT !.add_affixes = Some([min |-> 1, max |-> 1])]]]

UniqueIds == {"emberbrand", "stonecap", "quickblade"}

Uniques ==
    [id \in UniqueIds |->
        IF id = "emberbrand"
        THEN [id |-> id, name |-> <<"Emberbrand">>, base_type |-> "iron_sword",
              mods |-> <<[stat |-> "added_fire_damage", min |-> 10, max |-> 14],
                         [stat |-> "added_life", min |-> 20, max |-> 24]>>]
        ELSE IF id = "quickblade"
        THEN [id |-> id, name |-> <<"Quickblade">>, base_type |-> "iron_sword",
              mods |-> <<[stat |-> "increased_attack_speed", min |-> 3, max |-> 6],
                         [stat |-> "added_life", min |-> 1, max |-> 2]>>]
        ELSE [id |-> id, name |-> <<"Stonecap">>, base_type |-> "leather_cap",
              mods |-> <<[stat |-> "fire_resistance", min |-> 5, max |-> 7]>>]]

Influence(n, d) == [num |-> n, den |-> d]

UniqueRecipes ==
    << [unique_id |-> "emberbrand", base_type |-> "iron_sword", weight |-> 100,
        required_affixes |-> <<[stat |-> "added_fire_damage", affix_type |-> Some("prefix"),
                                min_tier |-> 1, max_tier |-> 99]>>,
        mappings |-> <<[from_stat |-> "added_fire_damage", to_mod_index |-> 0,
                        mode |-> "percentage", influence |-> Influence(1, 2)],
                       [from_stat |-> "added_life", to_mod_index |-> 1,
                        mode |-> "direct", influence |-> Influence(1, 1)]>>],
       [unique_id |-> "quickblade", base_type |-> "iron_sword", weight |-> 50,
        required_affixes |-> <<[stat |-> "increased_attack_speed", affix_type |-> Some("suffix"),
                                min_tier |-> 0, max_tier |-> 99]>>,
        mappings |-> <<[from_stat |-> "increased_attack_speed", to_mod_index |-> 0,
                        mode |-> "direct", influence |-> Influence(0, 1)]>>],
       [unique_id |-> "stonecap", base_type |-> "leather_cap", weight |-> 100,
        required_affixes |-> <<[stat |-> "fire_resistance", affix_type |-> None,
                                min_tier |-> 1, max_tier |-> 2]>>,
        mappings |-> <<[from_stat |-> "fire_resistance", to_mod_index |-> 0,
                        mode |-> "random", influence |-> Influence(1, 1)]>>],
       [unique_id |-> "stonecap", base_type |-> "leather_cap", weight |-> 0,
        required_affixes |-> <<[stat |-> "added_life", affix_type |-> Some("prefix"),
                                min_tier |-> 1, max_tier |-> 99]>>,
        mappings |-> <<>>] >>

(* Iteration orders of the affix HashMap that the model explores. *)
AffixOrders ==
    { <<"a_flaming", "b_sturdy", "c_swift", "d_warding", "e_sage", "f_hollow">>,
      <<"f_hollow", "e_sage", "d_warding", "c_swift", "b_sturdy", "a_flaming">> }

(***************************************************************************)
(* Seeded RNG (ChaCha8Rng::seed_from_u64).  The stream is a fixed function *)
(* of the seed; Stream stands for the cipher output, reduced to words of   *)
(* 0..63.  A 32-bit draw consumes one word, a 64-bit draw two.             *)
(***************************************************************************)
Stream(seed, pos) ==
    ((seed + 2) * (pos + 1) * (pos + 5) + (seed + 1) * (seed + 3) * 7 + (pos * pos * pos) \div 3) % 64

make_rng(seed) == [seed |-> seed, pos |-> 0]

(* rng.gen::<u32>() *)
gen_u32(rng) == [v |-> Stream(rng.seed, rng.pos), rng |-> [rng EXCEPT !.pos = @ + 1]]

(* rng.gen::<u64>(): low word first, then high word *)
gen_u64(rng) ==
    [v |-> Stream(rng.seed, rng.pos) + 64 * Stream(rng.seed, rng.pos + 1),
     rng |-> [rng EXCEPT !.pos = @ + 2]]

(* rng.gen_range(lo..=hi) on i32 / u32; the caller guarantees lo <= hi *)
gen_range(rng, lo, hi) ==
    LET d == gen_u32(rng) IN [v |-> lo + (d.v % (hi - lo + 1)), rng |-> d.rng]

(* rng.gen_range(0..n) on usize; the caller guarantees n > 0 *)
gen_index(rng, n) ==
    LET d == gen_u64(rng) IN [v |-> d.v % n, rng |-> d.rng]

(* rng.gen_bool(0.5): one u64 compared with 2^63 *)
gen_bool(rng) ==
    LET d == gen_u64(rng) IN [v |-> d.v < 2048, rng |-> d.rng]

(***************************************************************************)
(* item.rs                                                                 *)
(***************************************************************************)
new_normal(base, seed) ==
    [seed |-> seed,
     operations |-> <<>>,
     base_type_id |-> base.id,
     name |-> base.name,
     base_name |-> base.name,
     class |-> base.class,
     rarity |-> "normal",
     tags |-> base.tags,
     requirements |-> base.requirements,
     implicit |-> None,
     prefixes |-> <<>>,
     suffixes |-> <<>>,
     defenses |-> IF IsSome(base.defenses)
                  THEN LET def == Unwrap(base.defenses) IN
                       [armour |-> IF IsSome(def.armour) THEN Some(Unwrap(def.armour).min) ELSE None,
                        evasion |-> IF IsSome(def.evasion) THEN Some(Unwrap(def.evasion).min) ELSE None,
                        energy_shield |-> IF IsSome(def.energy_shield)
                                          THEN Some(Unwrap(def.energy_shield).min) ELSE None]
                  ELSE [armour |-> None, evasion |-> None, energy_shield |-> None],
     damage |-> base.damage]

(* record_currency inserting at the front of the log *)
record_currency_front(item, currency_id) ==
    [item EXCEPT !.operations = <<currency_id>> \o @]

record_currency(item, currency_id) ==
    [item EXCEPT !.operations = Append(@, currency_id)]

can_add_prefix(item) == Len(item.prefixes) < max_prefixes(item.rarity)

can_add_suffix(item) == Len(item.suffixes) < max_suffixes(item.rarity)

from_affix(affix, tier, value, value_max) ==
    [affix_id |-> affix.id, stat |-> affix.stat, scope |-> affix.scope, tier |-> tier.tier,
     value |-> value, value_max |-> value_max,
     tier_min |-> tier.min, tier_max |-> tier.max,
     tier_max_value |-> tier.max_value]

(* the affix ids of prefixes chained with suffixes *)
ExistingIds(item) ==
    {item.prefixes[i].affix_id : i \in 1..Len(item.prefixes)}
        \cup {item.suffixes[i].affix_id : i \in 1..Len(item.suffixes)}

(* Vec::remove(idx) with a 0-based index *)
RemoveAt(s, idx) == SubSeq(s, 1, idx) \o SubSeq(s, idx + 2, Len(s))

(***************************************************************************)
(* Weighted selection loop shared by the rolls: the first index i (in the  *)
(* given order) with roll < w[i] after subtracting the earlier weights; 0  *)
(* when the loop ends without a selection.                                 *)
(***************************************************************************)
RECURSIVE WeightedPick(_, _, _)
WeightedPick(ws, roll, i) ==
    IF i > Len(ws) THEN 0
    ELSE IF roll < ws[i] THEN i
    ELSE WeightedPick(ws, roll - ws[i], i + 1)

RECURSIVE SumSeq(_)
SumSeq(ws) == IF ws = <<>> THEN 0 ELSE Head(ws) + SumSeq(Tail(ws))

(***************************************************************************)
(* generator.rs: affix rolls                                               *)
(***************************************************************************)
get_valid_affixes(order, class, affix_type) ==
    SelectSeq(order, LAMBDA id :
        /\ Affixes[id].affix_type = affix_type
        /\ (Affixes[id].allowed_classes = {} \/ class \in Affixes[id].allowed_classes))

get_valid_affixes_from_pools(order, class, affix_type, pools) ==
    IF pools = <<>> THEN get_valid_affixes(order, class, affix_type)
    ELSE LET allowed_ids ==
                 UNION { {AffixPools[pools[i]].affixes[j] : j \in 1..Len(AffixPools[pools[i]].affixes)}
                         : i \in {k \in 1..Len(pools) : pools[k] \in DOMAIN AffixPools} }
         IN SelectSeq(order, LAMBDA id :
                /\ Affixes[id].affix_type = affix_type
                /\ (Affixes[id].allowed_classes = {} \/ class \in Affixes[id].allowed_classes)
                /\ id \in allowed_ids)

calculate_weight(affix, item_tags) ==
    LET base_weight == SumSeq([i \in 1..Len(affix.tiers) |-> affix.tiers[i].weight])
        matching_tags == Cardinality(affix.tags \cap item_tags)
    IN (base_weight * (2 + matching_tags)) \div 2

(* has_matching_tag that admits every affix *)
has_matching_tag_any(affix, item_tags) == TRUE

has_matching_tag(affix, item_tags) ==
    affix.tags = {} \/ affix.tags \cap item_tags # {}

(* candidate_affixes without the filter on the ids already on the item *)
candidate_affixes_any(order, class, item_tags, affix_type, existing_affix_ids, pools) ==
    SelectSeq(get_valid_affixes_from_pools(order, class, affix_type, pools),
              LAMBDA id : has_matching_tag(Affixes[id], item_tags))

(* the candidate list of a roll, in the iteration order of the table *)
candidate_affixes(order, class, item_tags, affix_type, existing_affix_ids, pools) ==
    SelectSeq(get_valid_affixes_from_pools(order, class, affix_type, pools),
              LAMBDA id : id \notin existing_affix_ids
                          /\ has_matching_tag(Affixes[id], item_tags))

(* eligible_tiers_for without the item level filter *)
eligible_tiers_all(affix, item_level) == affix.tiers

(* the tiers of the chosen affix that the item level admits *)
eligible_tiers_for(affix, item_level) ==
    SelectSeq(affix.tiers, LAMBDA t : t.min_ilvl <= item_level)

(* "Roll value ... Roll max value" and Modifier::from_affix.               *)
(* Result: [mod |-> Option<Modifier>, rng |-> the RNG after the draws]     *)
roll_affix_values(affix, tier, rng) ==
    LET r3 == gen_range(rng, tier.min, tier.max)
        r4 == IF IsSome(tier.max_value)
              THEN gen_range(r3.rng, Unwrap(tier.max_value).min, Unwrap(tier.max_value).max)
              ELSE [v |-> 0, rng |-> r3.rng]
    IN [mod |-> Some(from_affix(affix, tier, r3.v,
                                IF IsSome(tier.max_value) THEN Some(r4.v) ELSE None)),
        rng |-> r4.rng]

(* the tier loop after the draw r2: "selected_tier?" or the rolled values *)
roll_affix_tier_selected(affix, eligible_tiers, tier_weights, r2) ==
    LET tsel == WeightedPick(tier_weights, r2.v, 1) IN
    IF tsel = 0 THEN [mod |-> None, rng |-> r2.rng]
    ELSE roll_affix_values(affix, eligible_tiers[tsel], r2.rng)

(* "Filter tiers by item level ... Select tier" for the chosen affix *)
roll_affix_tier(affix, item_level, rng) ==
    LET eligible_tiers == eligible_tiers_for(affix, item_level)
        tier_weights == [i \in 1..Len(eligible_tiers) |-> eligible_tiers[i].weight]
        tier_total == SumSeq(tier_weights)
    IN
    IF eligible_tiers = <<>> THEN [mod |-> None, rng |-> rng]
    ELSE IF tier_total = 0 THEN [mod |-> None, rng |-> rng]
    ELSE roll_affix_tier_selected(affix, eligible_tiers, tier_weights,
                                  gen_range(rng, 0, tier_total - 1))

(* the affix loop after the draw r1: "selected_affix?" or the tier roll *)
roll_affix_selected(valid_affixes, weights, item_level, r1) ==
    LET sel == WeightedPick(weights, r1.v, 1) IN
    IF sel = 0 THEN [mod |-> None, rng |-> r1.rng]
    ELSE roll_affix_tier(Affixes[valid_affixes[sel]], item_level, r1.rng)

(* "Calculate weights ... Weighted random selection" over the candidates *)
roll_affix_among(valid_affixes, item_tags, item_level, rng) ==
    LET weights == [i \in 1..Len(valid_affixes) |->
                        calculate_weight(Affixes[valid_affixes[i]], item_tags)]
        total_weight == SumSeq(weights)
    IN
    IF valid_affixes = <<>> THEN [mod |-> None, rng |-> rng]
    ELSE IF total_weight = 0 THEN [mod |-> None, rng |-> rng]
    ELSE roll_affix_selected(valid_affixes, weights, item_level,
                             gen_range(rng, 0, total_weight - 1))

roll_affix_from_pools(order, class, item_tags, affix_type, existing_affix_ids, pools, item_level, rng) ==
    roll_affix_among(candidate_affixes(order, class, item_tags, affix_type, existing_affix_ids, pools),
                     item_tags, item_level, rng)

PREFIXES ==
    <<"Doom", "Wrath", "Storm", "Dread", "Soul", "Death", "Blood", "Shadow", "Grim", "Hate",
      "Plague", "Blight", "Rune", "Spirit", "Mind", "Skull", "Bone", "Venom", "Foe", "Pain">>

SUFFIXES ==
    <<"Bane", "Edge", "Fang", "Bite", "Roar", "Song", "Call", "Cry", "Grasp", "Touch",
      "Strike", "Blow", "Mark", "Brand", "Scar", "Ward", "Guard", "Veil", "Shroud", "Mantle">>

(* Result: [name, rng] *)
generate_rare_name(rng) ==
    LET p == gen_index(rng, Len(PREFIXES))
        s == gen_index(p.rng, Len(SUFFIXES))
    IN [name |-> <<PREFIXES[p.v + 1], SUFFIXES[s.v + 1]>>, rng |-> s.rng]

(***************************************************************************)
(* currency.rs: requirements                                               *)
(***************************************************************************)
(* can_add_any_specific_affix without the allowed_classes test *)
can_add_any_specific_affix_any_class(item, candidates, target_rarity, will_clear_affixes) ==
    \E i \in 1..Len(candidates) :
        /\ candidates[i].id \in DOMAIN Affixes
        /\ will_clear_affixes \/ candidates[i].id \notin ExistingIds(item)
        /\ IF Affixes[candidates[i].id].affix_type = "prefix"
           THEN (IF will_clear_affixes THEN 0 ELSE Len(item.prefixes)) < max_prefixes(target_rarity)
           ELSE (IF will_clear_affixes THEN 0 ELSE Len(item.suffixes)) < max_suffixes(target_rarity)

can_add_any_specific_affix(item, candidates, target_rarity, will_clear_affixes) ==
    LET existing == IF will_clear_affixes THEN {} ELSE ExistingIds(item)
        prefix_count == IF will_clear_affixes THEN 0 ELSE Len(item.prefixes)
        suffix_count == IF will_clear_affixes THEN 0 ELSE Len(item.suffixes)
        can_add_prefix_t == prefix_count < max_prefixes(target_rarity)
        can_add_suffix_t == suffix_count < max_suffixes(target_rarity)
    IN \E i \in 1..Len(candidates) :
          LET c == candidates[i] IN
          /\ c.id \in DOMAIN Affixes
          /\ c.id \notin existing
          /\ (Affixes[c.id].allowed_classes = {} \/ item.class \in Affixes[c.id].allowed_classes)
          /\ IF Affixes[c.id].affix_type = "prefix" THEN can_add_prefix_t ELSE can_add_suffix_t

(* check_requirements testing the slots against the current rarity *)
check_requirements_current_rarity(item, currency) ==
    LET reqs == currency.requires
        effects == currency.effects
        target_rarity == IF IsSome(effects.set_rarity) THEN Unwrap(effects.set_rarity) ELSE item.rarity
        needs_pools == IsSome(effects.add_affixes) \/ IsSome(effects.reroll_affixes)
    IN
    IF reqs.rarities # {} /\ item.rarity \notin reqs.rarities THEN "InvalidRarity"
    ELSE IF reqs.has_affix /\ item.prefixes = <<>> /\ item.suffixes = <<>> THEN "NoAffixesToRemove"
    ELSE IF reqs.has_affix_slot /\ ~can_add_prefix(item) /\ ~can_add_suffix(item) THEN "NoAffixSlots"
    ELSE IF /\ effects.add_specific_affix # <<>>
            /\ ~can_add_any_specific_affix(item, effects.add_specific_affix, target_rarity,
                                           effects.clear_affixes) THEN "NoValidAffixes"
    ELSE IF needs_pools /\ effects.affix_pools = <<>> THEN "NoAffixPoolsSpecified"
    ELSE "Ok"

(* check_requirements without the affix_pools check *)
check_requirements_no_pools_check(item, currency) ==
    LET reqs == currency.requires
        effects == currency.effects
        target_rarity == IF IsSome(effects.set_rarity) THEN Unwrap(effects.set_rarity) ELSE item.rarity
        prefix_count == IF effects.clear_affixes THEN 0 ELSE Len(item.prefixes)
        suffix_count == IF effects.clear_affixes THEN 0 ELSE Len(item.suffixes)
    IN
    IF reqs.rarities # {} /\ item.rarity \notin reqs.rarities THEN "InvalidRarity"
    ELSE IF reqs.has_affix /\ item.prefixes = <<>> /\ item.suffixes = <<>> THEN "NoAffixesToRemove"
    ELSE IF /\ reqs.has_affix_slot
            /\ ~(prefix_count < max_prefixes(target_rarity))
            /\ ~(suffix_count < max_suffixes(target_rarity)) THEN "NoAffixSlots"
    ELSE IF /\ effects.add_specific_affix # <<>>
            /\ ~can_add_any_specific_affix(item, effects.add_specific_affix, target_rarity,
                                           effects.clear_affixes) THEN "NoValidAffixes"
    ELSE "Ok"

(* "Ok" or the name of the CurrencyError *)
check_requirements(item, currency) ==
    LET reqs == currency.requires
        effects == currency.effects
        target_rarity == IF IsSome(effects.set_rarity) THEN Unwrap(effects.set_rarity) ELSE item.rarity
        prefix_count == IF effects.clear_affixes THEN 0 ELSE Len(item.prefixes)
        suffix_count == IF effects.clear_affixes THEN 0 ELSE Len(item.suffixes)
        needs_pools == IsSome(effects.add_affixes) \/ IsSome(effects.reroll_affixes)
    IN
    IF reqs.rarities # {} /\ item.rarity \notin reqs.rarities THEN "InvalidRarity"
    ELSE IF reqs.has_affix /\ item.prefixes = <<>> /\ item.suffixes = <<>> THEN "NoAffixesToRemove"
    ELSE IF /\ reqs.has_affix_slot
            /\ ~(prefix_count < max_prefixes(target_rarity))
            /\ ~(suffix_count < max_suffixes(target_rarity)) THEN "NoAffixSlots"
    ELSE IF /\ effects.add_specific_affix # <<>>
            /\ ~can_add_any_specific_affix(item, effects.add_specific_affix, target_rarity,
                                           effects.clear_affixes) THEN "NoValidAffixes"
    ELSE IF needs_pools /\ effects.affix_pools = <<>> THEN "NoAffixPoolsSpecified"
    ELSE "Ok"

(***************************************************************************)
(* currency.rs: effect stages.  Every stage takes the item and the RNG and *)
(* returns [err, item, rng]: the item and the RNG as the stage left them,  *)
(* also when it fails.                                                     *)
(***************************************************************************)
Ok(item, rng) == [err |-> "Ok", item |-> item, rng |-> rng]
Err(e, item, rng) == [err |-> e, item |-> item, rng |-> rng]

PushModifier(item, affix_type, modifier) ==
    IF affix_type = "prefix"
    THEN [item EXCEPT !.prefixes = Append(@, modifier)]
    ELSE [item EXCEPT !.suffixes = Append(@, modifier)]

(* Result of add_random_affix and of its attempts: [added, item, rng] *)
add_random_affix_push(item, affix_type, rolled) ==
    IF IsSome(rolled.mod)
    THEN [added |-> TRUE, item |-> PushModifier(item, affix_type, Unwrap(rolled.mod)),
          rng |-> rolled.rng]
    ELSE [added |-> FALSE, item |-> item, rng |-> rolled.rng]

(* add_random_affix_first without the retry of the other type *)
add_random_affix_first_no_retry(order, item, pools, affix_type, existing, first) ==
    add_random_affix_push(item, affix_type, first)

(* after the first roll: push its modifier, or "Try the other type if   *)
(* first failed"                                                         *)
add_random_affix_first(order, item, pools, affix_type, existing, first) ==
    LET other_type == IF affix_type = "prefix" THEN "suffix" ELSE "prefix"
        can_other == IF other_type = "prefix" THEN can_add_prefix(item) ELSE can_add_suffix(item)
    IN
    IF IsSome(first.mod) THEN add_random_affix_push(item, affix_type, first)
    ELSE IF can_other
    THEN add_random_affix_push(item, other_type,
             roll_affix_from_pools(order, item.class, item.tags, other_type, existing,
                                   pools, item.requirements.level, first.rng))
    ELSE [added |-> FALSE, item |-> item, rng |-> first.rng]

add_random_affix(order, item, pools, rng) ==
    LET existing == ExistingIds(item)
        can_prefix == can_add_prefix(item)
        can_suffix == can_add_suffix(item)
        coin == IF can_prefix /\ can_suffix THEN gen_bool(rng) ELSE [v |-> can_prefix, rng |-> rng]
        affix_type == IF coin.v THEN "prefix" ELSE "suffix"
    IN
    IF ~can_prefix /\ ~can_suffix THEN [added |-> FALSE, item |-> item, rng |-> rng]
    ELSE add_random_affix_first(order, item, pools, affix_type, existing,
             roll_affix_from_pools(order, item.class, item.tags, affix_type, existing,
                                   pools, item.requirements.level, coin.rng))

(* the loop "for _ in 0..count { if !add_random_affix(..) { break } }";  *)
(* last is the result of the previous iteration                          *)
RECURSIVE add_affixes_loop(_, _, _, _)
add_affixes_loop(order, last, pools, count) ==
    IF count = 0 \/ ~last.added THEN Ok(last.item, last.rng)
    ELSE add_affixes_loop(order, add_random_affix(order, last.item, pools, last.rng),
                          pools, count - 1)

(* "Roll value within tier range ... Add to appropriate list" *)
add_affix_with_tier(item, affix, selected_tier, rng) ==
    LET r2 == gen_range(rng, selected_tier.min, selected_tier.max)
        r3 == IF IsSome(selected_tier.max_value)
              THEN gen_range(r2.rng, Unwrap(selected_tier.max_value).min,
                             Unwrap(selected_tier.max_value).max)
              ELSE [v |-> 0, rng |-> r2.rng]
        modifier == [affix_id |-> affix.id, stat |-> affix.stat, scope |-> affix.scope,
                     tier |-> selected_tier.tier, value |-> r2.v,
                     value_max |-> IF IsSome(selected_tier.max_value) THEN Some(r3.v) ELSE None,
                     tier_min |-> selected_tier.min, tier_max |-> selected_tier.max,
                     tier_max_value |-> selected_tier.max_value]
    IN Ok(PushModifier(item, affix.affix_type, modifier), r3.rng)

(* the tier loop after the draw r1: "selected.ok_or(NoValidAffixes)?" *)
add_affix_tier_selected(item, affix, eligible_tiers, tier_weights, r1) ==
    LET tsel == WeightedPick(tier_weights, r1.v, 1) IN
    IF tsel = 0 THEN Err("NoValidAffixes", item, r1.rng)
    ELSE add_affix_with_tier(item, affix, eligible_tiers[tsel], r1.rng)

(* add_affix_by_id that rolls the tier when the explicit one is missing *)
add_affix_by_id_missing_tier_rolled(item, affix_id, tier, rng) ==
    IF affix_id \notin DOMAIN Affixes THEN Err("AffixNotFound", item, rng)
    ELSE
      LET affix == Affixes[affix_id]
          item_level == item.requirements.level
          found == SelectSeq(affix.tiers, LAMBDA t : t.tier = Unwrap(tier))
          eligible_tiers == SelectSeq(affix.tiers, LAMBDA t : t.min_ilvl <= item_level)
          tier_weights == [i \in 1..Len(eligible_tiers) |-> eligible_tiers[i].weight]
          total_weight == SumSeq(tier_weights)
      IN
      IF IsSome(tier) /\ found # <<>> THEN add_affix_with_tier(item, affix, found[1], rng)
      ELSE IF eligible_tiers = <<>> THEN Err("NoValidAffixes", item, rng)
      ELSE IF total_weight = 0 THEN Err("NoValidAffixes", item, rng)
      ELSE add_affix_tier_selected(item, affix, eligible_tiers, tier_weights,
                                   gen_range(rng, 0, total_weight - 1))

(* the TierNotFound result carries the fields of the error value in       *)
(* detail: TierNotFound { affix_id, tier }                                 *)
add_affix_by_id(item, affix_id, tier, rng) ==
    IF affix_id \notin DOMAIN Affixes THEN Err("AffixNotFound", item, rng)
    ELSE
      LET affix == Affixes[affix_id]
          item_level == item.requirements.level
          found == SelectSeq(affix.tiers, LAMBDA t : t.tier = Unwrap(tier))
          eligible_tiers == SelectSeq(affix.tiers, LAMBDA t : t.min_ilvl <= item_level)
          tier_weights == [i \in 1..Len(eligible_tiers) |-> eligible_tiers[i].weight]
          total_weight == SumSeq(tier_weights)
      IN
      IF IsSome(tier)
      THEN IF found = <<>>
           THEN [err |-> "TierNotFound", item |-> item, rng |-> rng,
                 detail |-> [affix_id |-> affix_id, tier |-> Unwrap(tier)]]
           ELSE add_affix_with_tier(item, affix, found[1], rng)
      ELSE IF eligible_tiers = <<>> THEN Err("NoValidAffixes", item, rng)
      ELSE IF total_weight = 0 THEN Err("NoValidAffixes", item, rng)
      ELSE add_affix_tier_selected(item, affix, eligible_tiers, tier_weights,
                                   gen_range(rng, 0, total_weight - 1))

(* "Weighted random selection" among the valid candidates, then           *)
(* add_affix_by_id                                                         *)
pick_specific_affix(item, valid_candidates, rng) ==
    LET weights == [i \in 1..Len(valid_candidates) |-> valid_candidates[i].weight]
        total_weight == SumSeq(weights)
        r == gen_range(rng, 0, total_weight - 1)
        sel == WeightedPick(weights, r.v, 1)
        chosen == IF sel = 0 THEN valid_candidates[1] ELSE valid_candidates[sel]
    IN
    IF valid_candidates = <<>> THEN Err("NoValidAffixes", item, rng)
    ELSE IF total_weight = 0 \/ Len(valid_candidates) = 1
    THEN add_affix_by_id(item, valid_candidates[1].id, valid_candidates[1].tier, rng)
    ELSE add_affix_by_id(item, chosen.id, chosen.tier, r.rng)

(* add_specific_affix_from_set without the allowed_classes filter *)
add_specific_affix_from_set_any_class(item, candidates, rng) ==
    pick_specific_affix(item,
        SelectSeq(candidates, LAMBDA c :
            /\ c.id \in DOMAIN Affixes
            /\ c.id \notin ExistingIds(item)
            /\ IF Affixes[c.id].affix_type = "prefix" THEN can_add_prefix(item)
               ELSE can_add_suffix(item)),
        rng)

add_specific_affix_from_set(item, candidates, rng) ==
    pick_specific_affix(item,
        SelectSeq(candidates, LAMBDA c :
            /\ c.id \in DOMAIN Affixes
            /\ c.id \notin ExistingIds(item)
            /\ (Affixes[c.id].allowed_classes = {} \/ item.class \in Affixes[c.id].allowed_classes)
            /\ IF Affixes[c.id].affix_type = "prefix" THEN can_add_prefix(item)
               ELSE can_add_suffix(item)),
        rng)

(* remove_random_affix that indexes the suffixes first *)
remove_random_affix_suffix_first(item, rng) ==
    LET total_affixes == Len(item.prefixes) + Len(item.suffixes) IN
    IF total_affixes = 0 THEN Err("NoAffixesToRemove", item, rng)
    ELSE LET d == gen_index(rng, total_affixes) IN
         IF d.v < Len(item.suffixes)
         THEN Ok([item EXCEPT !.suffixes = RemoveAt(@, d.v)], d.rng)
         ELSE Ok([item EXCEPT !.prefixes = RemoveAt(@, d.v - Len(item.suffixes))], d.rng)

remove_random_affix(item, rng) ==
    LET total_affixes == Len(item.prefixes) + Len(item.suffixes) IN
    IF total_affixes = 0 THEN Err("NoAffixesToRemove", item, rng)
    ELSE LET d == gen_index(rng, total_affixes) IN
         IF d.v < Len(item.prefixes)
         THEN Ok([item EXCEPT !.prefixes = RemoveAt(@, d.v)], d.rng)
         ELSE Ok([item EXCEPT !.suffixes = RemoveAt(@, d.v - Len(item.prefixes))], d.rng)

(* after the removal: "Try to add a new affix of the same type" *)
reroll_push(removed, affix_type, rolled) ==
    IF IsSome(rolled.mod) THEN Ok(PushModifier(removed, affix_type, Unwrap(rolled.mod)), rolled.rng)
    ELSE Ok(removed, rolled.rng)

(* reroll_random_affix that rolls the replacement of the other kind *)
reroll_random_affix_other_kind(order, item, pools, rng) ==
    LET prefix_count == Len(item.prefixes)
        total == prefix_count + Len(item.suffixes)
        d == gen_index(rng, total)
        is_prefix == d.v < prefix_count
        removed == IF is_prefix
                   THEN [item EXCEPT !.prefixes = RemoveAt(@, d.v)]
                   ELSE [item EXCEPT !.suffixes = RemoveAt(@, d.v - prefix_count)]
    IN
    IF total = 0 THEN Err("NoAffixesToRemove", item, rng)
    ELSE reroll_push(removed, IF is_prefix THEN "suffix" ELSE "prefix",
             roll_affix_from_pools(order, item.class, item.tags,
                                   IF is_prefix THEN "suffix" ELSE "prefix",
                                   ExistingIds(removed), pools, item.requirements.level, d.rng))

reroll_random_affix(order, item, pools, rng) ==
    LET prefix_count == Len(item.prefixes)
        suffix_count == Len(item.suffixes)
        total == prefix_count + suffix_count
        d == gen_index(rng, total)
        is_prefix == d.v < prefix_count
        affix_type == IF is_prefix THEN "prefix" ELSE "suffix"
        removed == IF is_prefix
                   THEN [item EXCEPT !.prefixes = RemoveAt(@, d.v)]
                   ELSE [item EXCEPT !.suffixes = RemoveAt(@, d.v - prefix_count)]
    IN
    IF total = 0 THEN Err("NoAffixesToRemove", item, rng)
    ELSE reroll_push(removed, affix_type,
             roll_affix_from_pools(order, item.class, item.tags, affix_type,
                                   ExistingIds(removed), pools, item.requirements.level, d.rng))

(* the loops "for _ in 0..count { stage(..)?; }"; last is the result of *)
(* the previous iteration                                                *)
RECURSIVE remove_affixes_loop(_, _)
remove_affixes_loop(last, count) ==
    IF count = 0 \/ last.err # "Ok" THEN last
    ELSE remove_affixes_loop(remove_random_affix(last.item, last.rng), count - 1)

RECURSIVE reroll_affixes_loop(_, _, _, _)
reroll_affixes_loop(order, last, pools, count) ==
    IF count = 0 \/ last.err # "Ok" THEN last
    ELSE reroll_affixes_loop(order, reroll_random_affix(order, last.item, pools, last.rng),
                             pools, count - 1)

(***************************************************************************)
(* currency.rs: unique transformation                                      *)
(***************************************************************************)
(* affix_requirement_met that does not look at the tier bounds *)
affix_requirement_met_any_tier(req, item) ==
    LET prefixes_match ==
            \E i \in 1..Len(item.prefixes) :
                /\ item.prefixes[i].stat = req.stat
                /\ (req.affix_type = None \/ req.affix_type = Some("prefix"))
        suffixes_match ==
            \E i \in 1..Len(item.suffixes) :
                /\ item.suffixes[i].stat = req.stat
                /\ (req.affix_type = None \/ req.affix_type = Some("suffix"))
    IN prefixes_match \/ suffixes_match

affix_requirement_met(req, item) ==
    LET prefixes_match ==
            \E i \in 1..Len(item.prefixes) :
                /\ item.prefixes[i].stat = req.stat
                /\ item.prefixes[i].tier >= req.min_tier
                /\ item.prefixes[i].tier <= req.max_tier
                /\ (req.affix_type = None \/ req.affix_type = Some("prefix"))
        suffixes_match ==
            \E i \in 1..Len(item.suffixes) :
                /\ item.suffixes[i].stat = req.stat
                /\ item.suffixes[i].tier >= req.min_tier
                /\ item.suffixes[i].tier <= req.max_tier
                /\ (req.affix_type = None \/ req.affix_type = Some("suffix"))
    IN prefixes_match \/ suffixes_match

recipe_matches(recipe, item) ==
    /\ recipe.base_type = item.base_type_id
    /\ \A i \in 1..Len(recipe.required_affixes) :
           affix_requirement_met(recipe.required_affixes[i], item)

(* f32 -> i32 conversion of a quotient: truncation toward zero (den > 0) *)
TruncDiv(n, d) == IF n >= 0 THEN n \div d ELSE -((-n) \div d)

Clamp(v, lo, hi) == IF v < lo THEN lo ELSE IF v > hi THEN hi ELSE v

MinOf(S) == CHOOSE x \in S : \A y \in S : x <= y
MaxOf(S) == CHOOSE x \in S : \A y \in S : x >= y

(* stat_values: the HashMap built by inserting prefixes, then suffixes; a  *)
(* later modifier with the same stat replaces the earlier entry            *)
stat_values(item) ==
    LET all == item.prefixes \o item.suffixes IN
    [st \in {all[i].stat : i \in 1..Len(all)} |->
        LET last == MaxOf({i \in 1..Len(all) : all[i].stat = st})
        IN [value |-> all[last].value, affix_id |-> all[last].affix_id]]

(* the percentage of the source affix's overall span, as a fraction *)
mapping_percentage(orig_value, affix_id) ==
    IF affix_id \notin DOMAIN Affixes THEN [num |-> 1, den |-> 2]
    ELSE
      LET affix == Affixes[affix_id]
          tier1 == SelectSeq(affix.tiers, LAMBDA t : t.tier = 1)
          overall_max == IF tier1 # <<>> THEN tier1[1].max
                         ELSE IF affix.tiers = <<>> THEN 0
                         ELSE MaxOf({affix.tiers[i].max : i \in 1..Len(affix.tiers)})
          overall_min == IF affix.tiers = <<>> THEN 0
                         ELSE MinOf({affix.tiers[i].min : i \in 1..Len(affix.tiers)})
          full_range == overall_max - overall_min
      IN IF full_range > 0
         THEN [num |-> Clamp(orig_value - overall_min, 0, full_range), den |-> full_range]
         ELSE [num |-> 1, den |-> 2]

(* unique_mod_value whose Direct mode skips the clamp to the mod's range *)
unique_mod_value_direct_unclamped(recipe, mod_index, mod_cfg, random_value, snapshot) ==
    LET found == SelectSeq(recipe.mappings, LAMBDA m : m.to_mod_index = mod_index) IN
    IF found = <<>> THEN random_value
    ELSE IF found[1].mode = "direct" /\ found[1].from_stat \in DOMAIN snapshot
    THEN snapshot[found[1].from_stat].value
    ELSE random_value

(* the value of unique mod number mod_index (0-based), given the draw *)
unique_mod_value(recipe, mod_index, mod_cfg, random_value, snapshot) ==
    LET unique_range == mod_cfg.max - mod_cfg.min
        found == SelectSeq(recipe.mappings, LAMBDA m : m.to_mod_index = mod_index)
    IN
    IF found = <<>> THEN random_value
    ELSE
      LET mapping == found[1] IN
      IF mapping.mode = "random" THEN random_value
      ELSE IF mapping.from_stat \notin DOMAIN snapshot THEN random_value
      ELSE
        LET orig == snapshot[mapping.from_stat]
            pct == mapping_percentage(orig.value, orig.affix_id)
            mapped_value == IF mapping.mode = "direct"
                            THEN Clamp(orig.value, mod_cfg.min, mod_cfg.max)
                            ELSE mod_cfg.min + TruncDiv(unique_range * pct.num, pct.den)
            inf == mapping.influence
        IN
        IF inf.num >= inf.den THEN mapped_value
        ELSE IF inf.num <= 0 THEN random_value
        ELSE Clamp(TruncDiv(inf.num * mapped_value + (inf.den - inf.num) * random_value, inf.den),
                   mod_cfg.min, mod_cfg.max)

(* format!("unique_{}", unique_id) *)
unique_affix_id(unique_id) ==
    CASE unique_id = "emberbrand" -> "unique_emberbrand"
      [] unique_id = "stonecap" -> "unique_stonecap"
      [] unique_id = "quickblade" -> "unique_quickblade"

(* unique_mods_loop that draws only for a mod whose value uses the draw *)
RECURSIVE unique_mods_loop_draw_if_used(_, _, _, _, _, _)
unique_mods_loop_draw_if_used(recipe, unique, snapshot, item, rng, i) ==
    IF i > Len(unique.mods) THEN Ok(item, rng)
    ELSE
      LET mod_cfg == unique.mods[i]
          found == SelectSeq(recipe.mappings, LAMBDA m : m.to_mod_index = i - 1)
          unused == /\ found # <<>>
                    /\ found[1].mode # "random"
                    /\ found[1].from_stat \in DOMAIN snapshot
                    /\ found[1].influence.num >= found[1].influence.den
          d == IF unused THEN [v |-> mod_cfg.min, rng |-> rng]
               ELSE gen_range(rng, mod_cfg.min, mod_cfg.max)
          modifier == [affix_id |-> unique_affix_id(recipe.unique_id),
                       stat |-> mod_cfg.stat, scope |-> "global", tier |-> 0,
                       value |-> unique_mod_value(recipe, i - 1, mod_cfg, d.v, snapshot),
                       value_max |-> None,
                       tier_min |-> mod_cfg.min, tier_max |-> mod_cfg.max,
                       tier_max_value |-> None]
      IN unique_mods_loop_draw_if_used(recipe, unique, snapshot,
                          [item EXCEPT !.prefixes = Append(@, modifier)], d.rng, i + 1)

(* the loop over unique.mods: one draw and one pushed modifier per mod *)
RECURSIVE unique_mods_loop(_, _, _, _, _, _)
unique_mods_loop(recipe, unique, snapshot, item, rng, i) ==
    IF i > Len(unique.mods) THEN Ok(item, rng)
    ELSE
      LET mod_cfg == unique.mods[i]
          d == gen_range(rng, mod_cfg.min, mod_cfg.max)
          modifier == [affix_id |-> unique_affix_id(recipe.unique_id),
                       stat |-> mod_cfg.stat, scope |-> "global", tier |-> 0,
                       value |-> unique_mod_value(recipe, i - 1, mod_cfg, d.v, snapshot),
                       value_max |-> None,
                       tier_min |-> mod_cfg.min, tier_max |-> mod_cfg.max,
                       tier_max_value |-> None]
      IN unique_mods_loop(recipe, unique, snapshot,
                          [item EXCEPT !.prefixes = Append(@, modifier)], d.rng, i + 1)

(* transform_to_unique that leaves the suffix list in place *)
transform_to_unique_keeps_suffixes(item, recipe, rng) ==
    IF recipe.unique_id \notin DOMAIN Uniques THEN Err("NoMatchingRecipe", item, rng)
    ELSE unique_mods_loop(recipe, Uniques[recipe.unique_id], stat_values(item),
                          [item EXCEPT !.rarity = "unique",
                                       !.name = Uniques[recipe.unique_id].name,
                                       !.prefixes = <<>>],
                          rng, 1)

(* transform_to_unique that also writes the unique's name to base_name *)
transform_to_unique_renames_base(item, recipe, rng) ==
    IF recipe.unique_id \notin DOMAIN Uniques THEN Err("NoMatchingRecipe", item, rng)
    ELSE unique_mods_loop(recipe, Uniques[recipe.unique_id], stat_values(item),
                          [item EXCEPT !.rarity = "unique",
                                       !.name = Uniques[recipe.unique_id].name,
                                       !.base_name = Uniques[recipe.unique_id].name,
                                       !.prefixes = <<>>, !.suffixes = <<>>],
                          rng, 1)

(* "Transform the item": rarity, name, cleared affixes, then the mods *)
transform_to_unique(item, recipe, rng) ==
    IF recipe.unique_id \notin DOMAIN Uniques THEN Err("NoMatchingRecipe", item, rng)
    ELSE unique_mods_loop(recipe, Uniques[recipe.unique_id], stat_values(item),
                          [item EXCEPT !.rarity = "unique",
                                       !.name = Uniques[recipe.unique_id].name,
                                       !.prefixes = <<>>, !.suffixes = <<>>],
                          rng, 1)

(* "Weighted random selection" among the matching recipes *)
select_recipe(item, matching_recipes, rng) ==
    LET weights == [i \in 1..Len(matching_recipes) |-> matching_recipes[i].weight]
        total_weight == SumSeq(weights)
        r == gen_range(rng, 0, total_weight - 1)
        sel == WeightedPick(weights, r.v, 1)
    IN
    IF matching_recipes = <<>> THEN Err("NoMatchingRecipe", item, rng)
    ELSE IF total_weight = 0 THEN Err("Panic", item, rng)
    ELSE IF sel = 0 THEN Err("NoMatchingRecipe", item, r.rng)
    ELSE transform_to_unique(item, matching_recipes[sel], r.rng)

try_unique_transformation(item, rng) ==
    select_recipe(item, SelectSeq(UniqueRecipes, LAMBDA r : recipe_matches(r, item)), rng)

(***************************************************************************)
(* currency.rs: apply_currency, the stateful apply.  It works on the       *)
(* caller's item (&mut Item) and the caller's RNG: the result carries the  *)
(* item and the RNG as the call left them, on success and on failure.      *)
(***************************************************************************)
(* The stages of apply_currency.  Each takes the result st of the stages  *)
(* before it and hands an error on unchanged ("?").                       *)
stage_set_rarity(st, effects) ==
    IF st.err # "Ok" \/ ~IsSome(effects.set_rarity) THEN st
    ELSE LET new_rarity == Unwrap(effects.set_rarity)
             named == generate_rare_name(st.rng)
         IN IF new_rarity = "rare" /\ st.item.name = st.item.base_name
            THEN Ok([st.item EXCEPT !.rarity = new_rarity, !.name = named.name], named.rng)
            ELSE Ok([st.item EXCEPT !.rarity = new_rarity], st.rng)

(* stage_clear_affixes that does not look at effects.clear_affixes *)
stage_clear_affixes_always(st, effects) ==
    IF st.err # "Ok" THEN st
    ELSE IF st.item.rarity = "normal"
    THEN Ok([st.item EXCEPT !.prefixes = <<>>, !.suffixes = <<>>, !.name = st.item.base_name],
            st.rng)
    ELSE Ok([st.item EXCEPT !.prefixes = <<>>, !.suffixes = <<>>], st.rng)

(* stage_clear_affixes that restores the base name whatever the rarity and *)
(* leaves the lists of an item already named by its base                   *)
stage_clear_affixes_name_first(st, effects) ==
    IF st.err # "Ok" \/ ~effects.clear_affixes THEN st
    ELSE IF st.item.name # st.item.base_name
    THEN Ok([st.item EXCEPT !.name = st.item.base_name], st.rng)
    ELSE Ok([st.item EXCEPT !.prefixes = <<>>, !.suffixes = <<>>], st.rng)

stage_clear_affixes(st, effects) ==
    IF st.err # "Ok" \/ ~effects.clear_affixes THEN st
    ELSE IF st.item.rarity = "normal"
    THEN Ok([st.item EXCEPT !.prefixes = <<>>, !.suffixes = <<>>, !.name = st.item.base_name],
            st.rng)
    ELSE Ok([st.item EXCEPT !.prefixes = <<>>, !.suffixes = <<>>], st.rng)

stage_remove_affixes(st, effects) ==
    IF st.err # "Ok" \/ ~IsSome(effects.remove_affixes) THEN st
    ELSE remove_affixes_loop(st, Unwrap(effects.remove_affixes))

stage_reroll_affixes(order, st, effects) ==
    IF st.err # "Ok" \/ ~IsSome(effects.reroll_affixes) THEN st
    ELSE reroll_affixes_loop(order, st, effects.affix_pools, Unwrap(effects.reroll_affixes))

stage_add_affixes(order, st, effects) ==
    IF st.err # "Ok" \/ ~IsSome(effects.add_affixes) THEN st
    ELSE LET affix_count == Unwrap(effects.add_affixes)
             count == IF affix_count.min = affix_count.max
                      THEN [v |-> affix_count.min, rng |-> st.rng]
                      ELSE gen_range(st.rng, affix_count.min, affix_count.max)
         IN add_affixes_loop(order, [added |-> TRUE, item |-> st.item, rng |-> count.rng],
                             effects.affix_pools, count.v)

stage_add_specific_affix(st, effects) ==
    IF st.err # "Ok" \/ effects.add_specific_affix = <<>> THEN st
    ELSE add_specific_affix_from_set(st.item, effects.add_specific_affix, st.rng)

stage_try_unique(st, effects) ==
    IF st.err # "Ok" \/ ~effects.try_unique THEN st
    ELSE try_unique_transformation(st.item, st.rng)

(* apply_currency with try_unique run before add_specific_affix *)
apply_currency_unique_before_specific(order, item, currency, rng) ==
    LET effects == currency.effects
        req == check_requirements(item, currency)
        s1 == stage_set_rarity(Ok(item, rng), effects)
        s2 == stage_clear_affixes(s1, effects)
        s3 == stage_remove_affixes(s2, effects)
        s4 == stage_reroll_affixes(order, s3, effects)
        s5 == stage_add_affixes(order, s4, effects)
        s6 == stage_try_unique(s5, effects)
        s7 == stage_add_specific_affix(s6, effects)
    IN IF req # "Ok" THEN Err(req, item, rng) ELSE s7

apply_currency(order, item, currency, rng) ==
    LET effects == currency.effects
        req == check_requirements(item, currency)
        s1 == stage_set_rarity(Ok(item, rng), effects)
        s2 == stage_clear_affixes(s1, effects)
        s3 == stage_remove_affixes(s2, effects)
        s4 == stage_reroll_affixes(order, s3, effects)
        s5 == stage_add_affixes(order, s4, effects)
        s6 == stage_add_specific_affix(s5, effects)
        s7 == stage_try_unique(s6, effects)
    IN IF req # "Ok" THEN Err(req, item, rng) ELSE s7

(***************************************************************************)
(* generator.rs: Generator.  order is the iteration order of the affix     *)
(* table of the Generator's Config.                                        *)
(***************************************************************************)
implicit_modifier(implicit_cfg, value) ==
    [affix_id |-> "implicit", stat |-> implicit_cfg.stat, scope |-> "local", tier |-> 0,
     value |-> value, value_max |-> None,
     tier_min |-> implicit_cfg.min, tier_max |-> implicit_cfg.max, tier_max_value |-> None]

(* one optional roll of generate: gen_range over the range when present *)
roll_optional(range, rng) ==
    IF IsSome(range) THEN gen_range(rng, Unwrap(range).min, Unwrap(range).max)
    ELSE [v |-> 0, rng |-> rng]

roll_initial_evasion_first(base, item, rng) ==
    LET def == IF IsSome(base.defenses) THEN Unwrap(base.defenses)
               ELSE [armour |-> None, evasion |-> None, energy_shield |-> None]
        imp == roll_optional(base.implicit, rng)
        ev == roll_optional(def.evasion, imp.rng)
        ar == roll_optional(def.armour, ev.rng)
        es == roll_optional(def.energy_shield, ar.rng)
    IN Ok([item EXCEPT
             !.implicit = IF IsSome(base.implicit)
                          THEN Some(implicit_modifier(Unwrap(base.implicit), imp.v)) ELSE @,
             !.defenses = [armour |-> IF IsSome(def.armour) THEN Some(ar.v) ELSE @.armour,
                           evasion |-> IF IsSome(def.evasion) THEN Some(ev.v) ELSE @.evasion,
                           energy_shield |-> IF IsSome(def.energy_shield)
                                             THEN Some(es.v) ELSE @.energy_shield]],
          es.rng)

(* "Roll implicit if present" and "Roll base defenses"; generation has no *)
(* error: the result is Ok(item, rng)                                      *)
roll_initial(base, item, rng) ==
    LET def == IF IsSome(base.defenses) THEN Unwrap(base.defenses)
               ELSE [armour |-> None, evasion |-> None, energy_shield |-> None]
        imp == roll_optional(base.implicit, rng)
        ar == roll_optional(def.armour, imp.rng)
        ev == roll_optional(def.evasion, ar.rng)
        es == roll_optional(def.energy_shield, ev.rng)
    IN Ok([item EXCEPT
             !.implicit = IF IsSome(base.implicit)
                          THEN Some(implicit_modifier(Unwrap(base.implicit), imp.v)) ELSE @,
             !.defenses = [armour |-> IF IsSome(def.armour) THEN Some(ar.v) ELSE @.armour,
                           evasion |-> IF IsSome(def.evasion) THEN Some(ev.v) ELSE @.evasion,
                           energy_shield |-> IF IsSome(def.energy_shield)
                                             THEN Some(es.v) ELSE @.energy_shield]],
          es.rng)

(* Generator::generate on a Generator whose config.base_types is           *)
(* base_types: Option<Item>                                                *)
generate_in(base_types, base_type_id, seed) ==
    IF base_type_id \notin DOMAIN base_types THEN None
    ELSE Some(roll_initial(base_types[base_type_id],
                           new_normal(base_types[base_type_id], seed), make_rng(seed)).item)

(* Option<Item> *)
generate(base_type_id, seed) == generate_in(BaseTypes, base_type_id, seed)

RECURSIVE roll_unique_mods(_, _, _, _, _)
roll_unique_mods(unique_id, unique, item, rng, i) ==
    IF i > Len(unique.mods) THEN item
    ELSE LET mod_cfg == unique.mods[i]
             d == gen_range(rng, mod_cfg.min, mod_cfg.max)
             modifier == [affix_id |-> unique_affix_id(unique_id), stat |-> mod_cfg.stat,
                          scope |-> "global", tier |-> 0, value |-> d.v, value_max |-> None,
                          tier_min |-> mod_cfg.min, tier_max |-> mod_cfg.max,
                          tier_max_value |-> None]
         IN roll_unique_mods(unique_id, unique, [item EXCEPT !.prefixes = Append(@, modifier)],
                             d.rng, i + 1)

(* Option<Item> *)
generate_unique(unique_id, seed) ==
    IF unique_id \notin DOMAIN Uniques THEN None
    ELSE IF Uniques[unique_id].base_type \notin DOMAIN BaseTypes THEN None
    ELSE LET unique == Uniques[unique_id]
             base == BaseTypes[unique.base_type]
             start == [new_normal(base, seed) EXCEPT !.rarity = "unique", !.name = unique.name]
             init == roll_initial(base, start, make_rng(seed))
         IN Some(roll_unique_mods(unique_id, unique, init.item, init.rng, 1))

(* The body of reconstruct's loop for one operation: the stateful apply on *)
(* the local item with the live RNG; an unknown currency id is skipped.    *)
reconstruct_step(order, item, currency_id, rng) ==
    IF currency_id \notin DOMAIN Currencies THEN Err("Skipped", item, rng)
    ELSE apply_currency(order, item, Currencies[currency_id], rng)

(* The replay loop of reconstruct and of replay_rng: every operation is    *)
(* applied with the one live RNG and its CurrencyError is dropped ("let _  *)
(* ="); last is the result of the previous iteration, the loop ends at a   *)
(* panic.                                                                  *)
RECURSIVE replay_operations(_, _, _)
replay_operations(order, last, operations) ==
    IF operations = <<>> \/ last.err = "Panic" THEN last
    ELSE replay_operations(order,
                           reconstruct_step(order, last.item, Head(operations), last.rng),
                           Tail(operations))

(* "Advance RNG past initial item generation": one gen::<u32>() for the   *)
(* implicit and for each present defense                                   *)
skip_initial(base, rng) ==
    LET hasDef == IsSome(base.defenses)
        def == Unwrap(base.defenses)
        n == (IF IsSome(base.implicit) THEN 1 ELSE 0)
             + (IF hasDef /\ IsSome(def.armour) THEN 1 ELSE 0)
             + (IF hasDef /\ IsSome(def.evasion) THEN 1 ELSE 0)
             + (IF hasDef /\ IsSome(def.energy_shield) THEN 1 ELSE 0)
    IN [rng EXCEPT !.pos = @ + n]

(* replay_rng that stops after the initial rolls: the logged operations  *)
(* are not replayed                                                        *)
replay_rng_initial_only(order, item) ==
    IF item.base_type_id \notin DOMAIN BaseTypes THEN Ok(item, make_rng(item.seed))
    ELSE roll_initial(BaseTypes[item.base_type_id],
                      new_normal(BaseTypes[item.base_type_id], item.seed),
                      skip_initial(BaseTypes[item.base_type_id], make_rng(item.seed)))

(* The result carries the RNG (.rng) and whether the replay panicked      *)
(* (.err = "Panic").                                                      *)
replay_rng(order, item) ==
    IF item.base_type_id \notin DOMAIN BaseTypes THEN Ok(item, make_rng(item.seed))
    ELSE replay_operations(order,
             roll_initial(BaseTypes[item.base_type_id],
                          new_normal(BaseTypes[item.base_type_id], item.seed),
                          skip_initial(BaseTypes[item.base_type_id], make_rng(item.seed))),
             item.operations)

(* commit_clone working on the caller's item instead of a clone *)
commit_in_place(item, currency_id, applied) ==
    IF applied.err = "Panic" THEN [res |-> "Panic", value |-> None, arg |-> applied.item]
    ELSE IF applied.err = "Ok"
    THEN [res |-> "Ok", value |-> Some(record_currency(applied.item, currency_id)),
          arg |-> record_currency(applied.item, currency_id)]
    ELSE [res |-> applied.err, value |-> None, arg |-> applied.item]

(* The end of the pure apply: "apply_currency(self, &mut new_item, ..)?;   *)
(* new_item.record_currency(currency_id); Ok(new_item)".  applied is the   *)
(* stateful apply's result on the clone new_item; item is the caller's.    *)
commit_clone(item, currency_id, applied) ==
    IF applied.err = "Panic" THEN [res |-> "Panic", value |-> None, arg |-> item]
    ELSE IF applied.err = "Ok"
    THEN [res |-> "Ok", value |-> Some(record_currency(applied.item, currency_id)), arg |-> item]
    ELSE [res |-> applied.err, value |-> None, arg |-> item]

(* "let mut new_item = item.clone(); let mut rng = self.replay_rng(..);"   *)
(* replay is the result of replay_rng                                      *)
apply_after_replay(order, item, currency_id, replay) ==
    IF replay.err = "Panic" THEN [res |-> "Panic", value |-> None, arg |-> item]
    ELSE commit_clone(item, currency_id,
                      apply_currency(order, item, Currencies[currency_id], replay.rng))

(* Generator::apply_currency, the pure apply.                              *)
(*   res    "Ok", the CurrencyError, or "Panic"                            *)
(*   value  the returned new item (Some on Ok)                             *)
(*   arg    the caller's item as the call leaves it                        *)
Generator_apply_currency(order, item, currency_id) ==
    IF currency_id \notin DOMAIN Currencies
    THEN [res |-> "UnknownCurrency", value |-> None, arg |-> item]
    ELSE apply_after_replay(order, item, currency_id, replay_rng(order, item))

can_apply_currency(item, currency_id) ==
    IF currency_id \notin DOMAIN Currencies THEN FALSE
    ELSE LET reqs == Currencies[currency_id].requires IN
         IF reqs.rarities # {} /\ item.rarity \notin reqs.rarities THEN FALSE
         ELSE IF reqs.has_affix /\ item.prefixes = <<>> /\ item.suffixes = <<>> THEN FALSE
         ELSE IF reqs.has_affix_slot /\ ~can_add_prefix(item) /\ ~can_add_suffix(item) THEN FALSE
         ELSE TRUE

(* The head of reconstruct: "let mut item = self.generate(..)?; let mut    *)
(* rng = self.replay_rng(&item);".  [item |-> Option<Item>, rng]           *)
reconstruct_begin(order, base_type_id, seed) ==
    IF generate(base_type_id, seed) = None THEN [item |-> None, rng |-> make_rng(0)]
    ELSE [item |-> generate(base_type_id, seed),
          rng |-> replay_rng(order, Unwrap(generate(base_type_id, seed))).rng]

(* The end of reconstruct: "item.operations = operations.to_vec();         *)
(* Some(item)".  [item |-> Option<Item>, panic]                            *)
reconstruct_end(replayed, operations) ==
    IF replayed.err = "Panic" THEN [item |-> None, panic |-> TRUE]
    ELSE [item |-> Some([replayed.item EXCEPT !.operations = operations]), panic |-> FALSE]

(* Generator::reconstruct: [item |-> Option<Item>, panic] *)
Generator_reconstruct(order, base_type_id, seed, operations) ==
    IF generate(base_type_id, seed) = None THEN [item |-> None, panic |-> FALSE]
    ELSE reconstruct_end(
             replay_operations(order,
                 Ok(Unwrap(generate(base_type_id, seed)),
                    reconstruct_begin(order, base_type_id, seed).rng),
                 operations),
             operations)

(***************************************************************************)
(* storage.rs: the binary codec.  A byte is a number 0..255, a String the  *)
(* sequence of its UTF-8 bytes, a u64 the sequence of its four 16-bit      *)
(* limbs (least significant first), a u32 the sequence of its two limbs.   *)
(* A StoredItem is [base_type_id, seed, operations]; an Operation, whose   *)
(* only variant is Currency(String), is the currency id.  An               *)
(* ItemCollection is the sequence of its items.                            *)
(***************************************************************************)
BINARY_VERSION == 1

(* b"LOOT" *)
COLLECTION_MAGIC == <<76, 79, 79, 84>>

MinNat(a, b) == IF a < b THEN a ELSE b

Take(s, n) == SubSeq(s, 1, MinNat(n, Len(s)))

(* u16::to_le_bytes / from_le_bytes *)
u16_to_le_bytes(n) == <<n % 256, (n \div 256) % 256>>
u16_from_le_bytes(b) == b[1] + (256 * b[2])

(* u32::to_le_bytes of a length (below 2^31) / from_le_bytes, to limbs *)
u32_to_le_bytes(n) ==
    <<n % 256, (n \div 256) % 256, (n \div 65536) % 256, (n \div 16777216) % 256>>
u32_from_le_bytes(b) == <<b[1] + (256 * b[2]), b[3] + (256 * b[4])>>

(* u64::to_le_bytes / from_le_bytes, on limbs *)
u64_to_le_bytes(l) ==
    u16_to_le_bytes(l[1]) \o u16_to_le_bytes(l[2]) \o u16_to_le_bytes(l[3])
        \o u16_to_le_bytes(l[4])
u64_from_le_bytes(b) ==
    <<b[1] + (256 * b[2]), b[3] + (256 * b[4]), b[5] + (256 * b[6]), b[7] + (256 * b[8])>>

(* core::str::from_utf8 on a byte sequence: every byte that is not a       *)
(* continuation byte starts a well-formed character, and every             *)
(* continuation byte lies inside the character of one of the three bytes   *)
(* before it                                                               *)
IsCont(x) == x >= 128 /\ x <= 191

utf8_char_width(x) ==
    IF x < 128 THEN 1
    ELSE IF x >= 194 /\ x <= 223 THEN 2
    ELSE IF x >= 224 /\ x <= 239 THEN 3
    ELSE IF x >= 240 /\ x <= 244 THEN 4
    ELSE 0

utf8_char_at(b, i) ==
    /\ utf8_char_width(b[i]) > 0
    /\ i + utf8_char_width(b[i]) - 1 <= Len(b)
    /\ \A k \in (i + 1)..(i + utf8_char_width(b[i]) - 1) : IsCont(b[k])
    /\ (b[i] = 224 => b[i + 1] >= 160)
    /\ (b[i] = 237 => b[i + 1] <= 159)
    /\ (b[i] = 240 => b[i + 1] >= 144)
    /\ (b[i] = 244 => b[i + 1] <= 143)

is_utf8(b) ==
    \A i \in 1..Len(b) :
        IF IsCont(b[i])
        THEN \E j \in 1..(i - 1) :
                 /\ i - j <= 3
                 /\ utf8_char_width(b[j]) > i - j
                 /\ utf8_char_at(b, j)
        ELSE utf8_char_at(b, i)

(* write_string: the length byte is min(len, 255) and only that many bytes *)
(* are written                                                             *)
write_string(s) == <<MinNat(Len(s), 255)>> \o SubSeq(s, 1, MinNat(Len(s), 255))

RECURSIVE encode_operations(_)
encode_operations(operations) ==
    IF operations = <<>> THEN <<>>
    ELSE <<0>> \o write_string(Head(operations)) \o encode_operations(Tail(operations))

(* <StoredItem as BinaryEncode>::encode *)
StoredItem_encode(x) ==
    <<BINARY_VERSION>> \o write_string(x.base_type_id) \o u64_to_le_bytes(x.seed)
        \o u16_to_le_bytes(MinNat(Len(x.operations), 65535))
        \o encode_operations(Take(x.operations, 65535))

(* the strings of a collection in the order encode interns them: each      *)
(* item's base_type_id, then its operations                                *)
RECURSIVE referenced_strings(_)
referenced_strings(items) ==
    IF items = <<>> THEN <<>>
    ELSE <<Head(items).base_type_id>> \o Head(items).operations
             \o referenced_strings(Tail(items))

(* the closure intern, over the strings in order: string_table *)
RECURSIVE intern(_, _)
intern(strings, string_table) ==
    IF strings = <<>> THEN string_table
    ELSE IF \E i \in 1..Len(string_table) : string_table[i] = Head(strings)
    THEN intern(Tail(strings), string_table)
    ELSE intern(Tail(strings), Append(string_table, Head(strings)))

(* string_indices.get(s): "string_table.len() as u16" at the insertion *)
string_indices(string_table, s) ==
    ((CHOOSE i \in 1..Len(string_table) : string_table[i] = s) - 1) % 65536

RECURSIVE encode_string_table(_)
encode_string_table(strings) ==
    IF strings = <<>> THEN <<>>
    ELSE write_string(Head(strings)) \o encode_string_table(Tail(strings))

RECURSIVE encode_indexed_operations(_, _)
encode_indexed_operations(string_table, operations) ==
    IF operations = <<>> THEN <<>>
    ELSE <<0>> \o u16_to_le_bytes(string_indices(string_table, Head(operations)))
             \o encode_indexed_operations(string_table, Tail(operations))

RECURSIVE encode_items(_, _)
encode_items(string_table, items) ==
    IF items = <<>> THEN <<>>
    ELSE u16_to_le_bytes(string_indices(string_table, Head(items).base_type_id))
             \o u64_to_le_bytes(Head(items).seed)
             \o u16_to_le_bytes(MinNat(Len(Head(items).operations), 65535))
             \o encode_indexed_operations(string_table, Take(Head(items).operations, 65535))
             \o encode_items(string_table, Tail(items))

(* the bytes written for a collection whose interned strings are given *)
encode_with_table(string_table, items) ==
    COLLECTION_MAGIC \o <<BINARY_VERSION>>
        \o u16_to_le_bytes(MinNat(Len(string_table), 65535))
        \o encode_string_table(Take(string_table, 65535))
        \o u32_to_le_bytes(Len(items))
        \o encode_items(string_table, items)

(* <ItemCollection as BinaryEncode>::encode *)
ItemCollection_encode(items) ==
    encode_with_table(intern(referenced_strings(items), <<>>), items)

(***************************************************************************)
(* Reading.  A read returns [err, arg, v, pos]: err is "Ok" or the name of *)
(* the DecodeError ("Io" is DecodeError::Io), arg the number the error     *)
(* carries, v the value read, pos the number of bytes consumed so far.     *)
(***************************************************************************)
ReadOk(v, pos) == [err |-> "Ok", arg |-> 0, v |-> v, pos |-> pos]
ReadErr(e, arg, pos) == [err |-> e, arg |-> arg, v |-> <<>>, pos |-> pos]

read_u8(b, pos) ==
    IF pos + 1 > Len(b) THEN ReadErr("UnexpectedEof", 0, pos)
    ELSE ReadOk(b[pos + 1], pos + 1)

read_u16(b, pos) ==
    IF pos + 2 > Len(b) THEN ReadErr("UnexpectedEof", 0, pos)
    ELSE ReadOk(u16_from_le_bytes(SubSeq(b, pos + 1, pos + 2)), pos + 2)

read_u32(b, pos) ==
    IF pos + 4 > Len(b) THEN ReadErr("UnexpectedEof", 0, pos)
    ELSE ReadOk(u32_from_le_bytes(SubSeq(b, pos + 1, pos + 4)), pos + 4)

read_u64(b, pos) ==
    IF pos + 8 > Len(b) THEN ReadErr("UnexpectedEof", 0, pos)
    ELSE ReadOk(u64_from_le_bytes(SubSeq(b, pos + 1, pos + 8)), pos + 8)

(* the body of read_string once the length byte is read *)
read_string_bytes(b, len) ==
    IF len.err # "Ok" THEN len
    ELSE IF len.pos + len.v > Len(b) THEN ReadErr("UnexpectedEof", 0, len.pos)
    ELSE IF ~is_utf8(SubSeq(b, len.pos + 1, len.pos + len.v))
    THEN ReadErr("InvalidUtf8", 0, len.pos + len.v)
    ELSE ReadOk(SubSeq(b, len.pos + 1, len.pos + len.v), len.pos + len.v)

read_string(b, pos) == read_string_bytes(b, read_u8(b, pos))

(* A decode returns [err, arg, value]: value is Some(..) on Ok *)
DecodeOk(value) == [err |-> "Ok", arg |-> 0, value |-> Some(value)]
DecodeErr(e, arg) == [err |-> e, arg |-> arg, value |-> None]

(* the loop "for _ in 0..ops_count" of StoredItem::decode: n operations    *)
(* are still to be read, acc are those read                                *)
RECURSIVE decode_operations(_, _, _, _)
RECURSIVE decode_operation_type(_, _, _, _)
RECURSIVE decode_operation_id(_, _, _, _)
decode_operations(b, pos, n, acc) ==
    IF n = 0 THEN ReadOk(acc, pos)
    ELSE decode_operation_type(b, n, acc, read_u8(b, pos))

(* "OpType::try_from(read_u8(reader)?)?" *)
decode_operation_type(b, n, acc, op_type) ==
    IF op_type.err # "Ok" THEN op_type
    ELSE IF op_type.v # 0 THEN ReadErr("InvalidOperationType", op_type.v, op_type.pos)
    ELSE decode_operation_id(b, n, acc, read_string(b, op_type.pos))

decode_operation_id(b, n, acc, currency_id) ==
    IF currency_id.err # "Ok" THEN currency_id
    ELSE decode_operations(b, currency_id.pos, n - 1, Append(acc, currency_id.v))

(* "Ok(StoredItem { base_type_id, seed, operations })" *)
decode_item_end(base_type_id, seed, operations) ==
    IF operations.err # "Ok" THEN DecodeErr(operations.err, operations.arg)
    ELSE DecodeOk([base_type_id |-> base_type_id, seed |-> seed, operations |-> operations.v])

decode_item_ops_count(b, base_type_id, seed, ops_count) ==
    IF ops_count.err # "Ok" THEN DecodeErr(ops_count.err, ops_count.arg)
    ELSE decode_item_end(base_type_id, seed,
                         decode_operations(b, ops_count.pos, ops_count.v, <<>>))

decode_item_seed(b, base_type_id, seed) ==
    IF seed.err # "Ok" THEN DecodeErr(seed.err, seed.arg)
    ELSE decode_item_ops_count(b, base_type_id, seed.v, read_u16(b, seed.pos))

decode_item_base(b, base_type_id) ==
    IF base_type_id.err # "Ok" THEN DecodeErr(base_type_id.err, base_type_id.arg)
    ELSE decode_item_seed(b, base_type_id.v, read_u64(b, base_type_id.pos))

decode_item_version(b, version) ==
    IF version.err # "Ok" THEN DecodeErr(version.err, version.arg)
    ELSE IF version.v # BINARY_VERSION THEN DecodeErr("InvalidVersion", version.v)
    ELSE decode_item_base(b, read_string(b, version.pos))

(* <StoredItem as BinaryDecode>::decode, from a slice *)
StoredItem_decode(b) == decode_item_version(b, read_u8(b, 0))

table_get_wrapping(string_table, idx) ==
    IF idx.err # "Ok" THEN idx
    ELSE IF string_table = <<>> THEN ReadErr("InvalidStringIndex", idx.v, idx.pos)
    ELSE ReadOk(string_table[(idx.v % Len(string_table)) + 1], idx.pos)

(* string_table.get(idx).ok_or(InvalidStringIndex(idx)) on a read index *)
table_get(string_table, idx) ==
    IF idx.err # "Ok" THEN idx
    ELSE IF idx.v >= Len(string_table) THEN ReadErr("InvalidStringIndex", idx.v, idx.pos)
    ELSE ReadOk(string_table[idx.v + 1], idx.pos)

(* the operations loop of ItemCollection::decode *)
RECURSIVE decode_indexed_operations(_, _, _, _, _)
RECURSIVE decode_indexed_operation_type(_, _, _, _, _)
RECURSIVE decode_indexed_operation_id(_, _, _, _, _)
decode_indexed_operations(b, string_table, pos, n, acc) ==
    IF n = 0 THEN ReadOk(acc, pos)
    ELSE decode_indexed_operation_type(b, string_table, n, acc, read_u8(b, pos))

decode_indexed_operation_type(b, string_table, n, acc, op_type) ==
    IF op_type.err # "Ok" THEN op_type
    ELSE IF op_type.v # 0 THEN ReadErr("InvalidOperationType", op_type.v, op_type.pos)
    ELSE decode_indexed_operation_id(b, string_table, n, acc,
                                     table_get(string_table, read_u16(b, op_type.pos)))

decode_indexed_operation_id(b, string_table, n, acc, currency_id) ==
    IF currency_id.err # "Ok" THEN currency_id
    ELSE decode_indexed_operations(b, string_table, currency_id.pos, n - 1,
                                   Append(acc, currency_id.v))

(* items_count - 1 on the limbs of a non-zero u32 *)
u32_pred(n) == IF n[1] > 0 THEN <<n[1] - 1, n[2]>> ELSE <<65535, n[2] - 1>>

(* the loop "for _ in 0..items_count" of ItemCollection::decode *)
RECURSIVE decode_items(_, _, _, _, _)
RECURSIVE decode_items_base(_, _, _, _, _)
RECURSIVE decode_items_seed(_, _, _, _, _, _)
RECURSIVE decode_items_ops_count(_, _, _, _, _, _, _)
RECURSIVE decode_items_push(_, _, _, _, _, _, _)
decode_items(b, string_table, pos, n, acc) ==
    IF n = <<0, 0>> THEN DecodeOk(acc)
    ELSE decode_items_base(b, string_table, n, acc,
                           table_get(string_table, read_u16(b, pos)))

decode_items_base(b, string_table, n, acc, base_type_id) ==
    IF base_type_id.err # "Ok" THEN DecodeErr(base_type_id.err, base_type_id.arg)
    ELSE decode_items_seed(b, string_table, n, acc, base_type_id.v,
                           read_u64(b, base_type_id.pos))

decode_items_seed(b, string_table, n, acc, base_type_id, seed) ==
    IF seed.err # "Ok" THEN DecodeErr(seed.err, seed.arg)
    ELSE decode_items_ops_count(b, string_table, n, acc, base_type_id, seed.v,
                                read_u16(b, seed.pos))

decode_items_ops_count(b, string_table, n, acc, base_type_id, seed, ops_count) ==
    IF ops_count.err # "Ok" THEN DecodeErr(ops_count.err, ops_count.arg)
    ELSE decode_items_push(b, string_table, n, acc, base_type_id, seed,
                           decode_indexed_operations(b, string_table, ops_count.pos,
                                                     ops_count.v, <<>>))

decode_items_push(b, string_table, n, acc, base_type_id, seed, operations) ==
    IF operations.err # "Ok" THEN DecodeErr(operations.err, operations.arg)
    ELSE decode_items(b, string_table, operations.pos, u32_pred(n),
                      Append(acc, [base_type_id |-> base_type_id, seed |-> seed,
                                   operations |-> operations.v]))

decode_collection_items_count(b, string_table, items_count) ==
    IF items_count.err # "Ok" THEN DecodeErr(items_count.err, items_count.arg)
    ELSE decode_items(b, string_table, items_count.pos, items_count.v, <<>>)

(* the loop "for _ in 0..table_count" *)
RECURSIVE decode_string_table(_, _, _, _)
RECURSIVE decode_string_table_push(_, _, _, _)
decode_string_table(b, pos, n, acc) ==
    IF n = 0 THEN ReadOk(acc, pos)
    ELSE decode_string_table_push(b, n, acc, read_string(b, pos))

decode_string_table_push(b, n, acc, s) ==
    IF s.err # "Ok" THEN s
    ELSE decode_string_table(b, s.pos, n - 1, Append(acc, s.v))

decode_collection_table(b, string_table) ==
    IF string_table.err # "Ok" THEN DecodeErr(string_table.err, string_table.arg)
    ELSE decode_collection_items_count(b, string_table.v, read_u32(b, string_table.pos))

decode_collection_table_count(b, table_count) ==
    IF table_count.err # "Ok" THEN DecodeErr(table_count.err, table_count.arg)
    ELSE decode_collection_table(b, decode_string_table(b, table_count.pos, table_count.v, <<>>))

decode_collection_version_unchecked(b, version) ==
    IF version.err # "Ok" THEN DecodeErr(version.err, version.arg)
    ELSE decode_collection_table_count(b, read_u16(b, version.pos))

decode_collection_version(b, version) ==
    IF version.err # "Ok" THEN DecodeErr(version.err, version.arg)
    ELSE IF version.v # BINARY_VERSION THEN DecodeErr("InvalidVersion", version.v)
    ELSE decode_collection_table_count(b, read_u16(b, version.pos))

(* "reader.read_exact(&mut magic)?": the io::Error goes through            *)
(* From<io::Error>, which gives DecodeError::Io                            *)
decode_collection_magic(b) ==
    IF Len(b) < 4 THEN DecodeErr("Io", 0)
    ELSE IF SubSeq(b, 1, 4) # COLLECTION_MAGIC THEN DecodeErr("InvalidMagic", 0)
    ELSE decode_collection_version(b, read_u8(b, 4))

(* <ItemCollection as BinaryDecode>::decode, from a slice *)
ItemCollection_decode(b) == decode_collection_magic(b)

(***************************************************************************)
(* State                                                                   *)
(*   order   iteration order of the affix table of this Generator          *)
(*   pc      "start"; "normal" / "unique": the caller holds an item made   *)
(*           by generate / generate_unique and pure applies; "absent": the *)
(*           generation returned None; "recon": inside reconstruct's loop; *)
(*           "done": reconstruct returned; "crashed": a panic              *)
(*   item    the caller's item (Option<Item>)                              *)
(*   ret     the last call of the pure apply: its currency id, its result, *)
(*           the caller's item before and after the call, the new item     *)
(*   ritem, rrng   reconstruct's local item and live RNG                   *)
(*   rops, ri      the operations passed to reconstruct, the loop position *)
(*   rkept         the operations so far whose application did not fail     *)
(*   rlast         the last call of the stateful apply in the loop: the    *)
(*                 currency id, its result, the item and RNG before it     *)
(* The codec:                                                              *)
(*   cpc           "start", "encoded", "decoded"                           *)
(*   ckind         "item" or "collection": what was encoded                *)
(*   cinput        the encoded value: the items of the collection, or the  *)
(*                 one StoredItem                                          *)
(*   cbytes        the bytes handed to decode                              *)
(*   cmod          what was done to the encoder's output: [kind, at,       *)
(*                 also], kind "none", "truncated" (cut to at bytes) or    *)
(*                 "patched" (the byte at position at overwritten, and the *)
(*                 byte at position also when also is not 0)               *)
(*   cdec          the result of decode                                    *)
(* Workers sharing the Generator:                                          *)
(*   witems        the item each worker holds: Option<Item>                *)
(*   wdone         the calls each worker has made, in order, each with its *)
(*                 result                                                  *)
(*   gen0          the affix table order of the Generator as constructed   *)
(* Single calls of the engine's functions:                                 *)
(*   pin           the call: [op, ..arguments]                             *)
(*   pout          what it returned                                        *)
(***************************************************************************)
VARIABLES order, pc, item, ret, ritem, rrng, rops, ri, rkept, rlast,
          cpc, ckind, cinput, cbytes, cmod, cdec,
          witems, wdone, gen0,
          pin, pout

genVars == <<order, pc, item, ret, ritem, rrng, rops, ri, rkept, rlast>>
codecVars == <<cpc, ckind, cinput, cbytes, cmod, cdec>>
workerVars == <<witems, wdone, gen0>>
callVars == <<pin, pout>>

vars == <<genVars, codecVars, workerVars, callVars>>

BaseIdInputs == DOMAIN BaseTypes \cup {"no_such_base"}
UniqueIdInputs == DOMAIN Uniques \cup {"no_such_unique"}
CurrencyIdInputs == DOMAIN Currencies \cup {"no_such_currency"}
ReconCurrencyInputs ==
    {"transmute", "alchemy", "annul", "imbue", "catalyst", "shatter", "brand", "wild",
     "no_such_currency"}

SeqsUpTo(S, n) == UNION {[1..k -> S] : k \in 0..n}

NoRet == [cid |-> "", res |-> "", before |-> None, arg |-> None, value |-> None]
NoLast == [cid |-> "", err |-> "", before |-> None, rng_before |-> make_rng(0)]

(* "a", "bc", "é" *)
StrA == <<97>>
StrBC == <<98, 99>>
StrE == <<195, 169>>

(* s.as_bytes() of the base type ids of the Config *)
as_bytes(id) ==
    IF id = "iron_sword" THEN <<105, 114, 111, 110, 95, 115, 119, 111, 114, 100>>
    ELSE <<108, 101, 97, 116, 104, 101, 114, 95, 99, 97, 112>>

(* 256 bytes: 256 times "x"; and 254 times "x" followed by "é" *)
StrLong == [i \in 1..256 |-> 120]
StrLongE == [i \in 1..254 |-> 120] \o StrE

SeedInputs == {<<0, 0, 0, 0>>, <<513, 2, 0, 65535>>}

StoredItemInputs ==
    {[base_type_id |-> b, seed |-> s, operations |-> ops] :
        b \in {StrA, StrE}, s \in SeedInputs, ops \in SeqsUpTo({StrA, StrBC}, MaxStoredOps)}
    \cup
    {[base_type_id |-> StrLong, seed |-> <<0, 0, 0, 0>>, operations |-> <<>>],
     [base_type_id |-> StrA, seed |-> <<0, 0, 0, 0>>, operations |-> <<StrLongE>>],
     [base_type_id |-> as_bytes("iron_sword"), seed |-> <<1, 0, 0, 0>>,
      operations |-> <<StrA>>]}

CollectionItemInputs ==
    {[base_type_id |-> b, seed |-> <<1, 0, 0, 0>>, operations |-> ops] :
        b \in {StrA, StrBC}, ops \in SeqsUpTo({StrA, StrE}, 1)}
    \cup
    {[base_type_id |-> StrLong, seed |-> <<0, 0, 0, 0>>, operations |-> <<StrA>>]}

CollectionInputs == SeqsUpTo(CollectionItemInputs, MaxItems)

PatchBytes == {0, 2, 255}

NoDecode == [err |-> "", arg |-> 0, value |-> None]

InitCodec ==
    /\ cpc = "start"
    /\ ckind = ""
    /\ cinput = <<>>
    /\ cbytes = <<>>
    /\ cmod = [kind |-> "none", at |-> 0, also |-> 0]
    /\ cdec = NoDecode

Workers == 1..2

WorkerBaseInputs == {"iron_sword"}
WorkerSeedInputs == {0, 1}
WorkerCurrencyInputs == {"transmute", "alchemy"}

Generator_after_call_rehashed(g) == CHOOSE o \in AffixOrders : o # g

(* the Generator after a call through &self *)
Generator_after_call(g) == g

InitWorkers ==
    /\ witems = [w \in Workers |-> None]
    /\ wdone = [w \in Workers |-> <<>>]
    /\ gen0 = order

InitGen ==
    /\ order \in AffixOrders
    /\ pc = "start"
    /\ item = None
    /\ ret = NoRet
    /\ ritem = None
    /\ rrng = make_rng(0)
    /\ rops = <<>>
    /\ ri = 0
    /\ rkept = <<>>
    /\ rlast = NoLast

InitCalls ==
    /\ pin = [op |-> ""]
    /\ pout = None

Init == InitGen /\ InitCodec /\ InitWorkers /\ InitCalls

(* generate(base_type_id, seed) *)
Generate(base_type_id, seed) ==
    /\ pc = "start"
    /\ item' = generate(base_type_id, seed)
    /\ pc' = IF IsSome(item') THEN "normal" ELSE "absent"
    /\ UNCHANGED <<order, ret, ritem, rrng, rops, ri, rkept, rlast, codecVars, workerVars, callVars>>

(* generate_unique(unique_id, seed) *)
GenerateUnique(unique_id, seed) ==
    /\ pc = "start"
    /\ item' = generate_unique(unique_id, seed)
    /\ pc' = IF IsSome(item') THEN "unique" ELSE "absent"
    /\ UNCHANGED <<order, ret, ritem, rrng, rops, ri, rkept, rlast, codecVars, workerVars, callVars>>

(* The caller applies a currency through the pure apply and keeps the      *)
(* returned item on success.                                               *)
ApplyCurrency(currency_id) ==
    /\ pc \in {"normal", "unique"}
    /\ Len(Unwrap(item).operations) < MaxOps
    /\ \E r \in {Generator_apply_currency(order, Unwrap(item), currency_id)} :
       /\ ret' = [cid |-> currency_id, res |-> r.res, before |-> item,
                  arg |-> Some(r.arg), value |-> r.value]
       /\ item' = IF r.res = "Ok" THEN r.value ELSE Some(r.arg)
       /\ pc' = IF r.res = "Panic" THEN "crashed" ELSE pc
    /\ UNCHANGED <<order, ritem, rrng, rops, ri, rkept, rlast, codecVars, workerVars, callVars>>

(* reconstruct(base_type_id, seed, operations): generate, position the RNG *)
ReconstructBegin(base_type_id, seed, operations) ==
    /\ pc = "start"
    /\ \E b \in {reconstruct_begin(order, base_type_id, seed)} :
       /\ pc' = IF b.item = None THEN "absent" ELSE "recon"
       /\ ritem' = b.item
       /\ rrng' = b.rng
       /\ rops' = IF b.item = None THEN rops ELSE operations
       /\ ri' = IF b.item = None THEN ri ELSE 1
    /\ UNCHANGED <<order, item, ret, rkept, rlast, codecVars, workerVars, callVars>>

(* one iteration of "for op in operations": the stateful apply on the      *)
(* local item with the live RNG, its error dropped                         *)
ReconstructStep ==
    /\ pc = "recon"
    /\ ri <= Len(rops)
    /\ \E r \in {reconstruct_step(order, Unwrap(ritem), rops[ri], rrng)} :
       /\ ritem' = Some(r.item)
       /\ rrng' = r.rng
       /\ rlast' = [cid |-> rops[ri], err |-> r.err, before |-> ritem, rng_before |-> rrng]
       /\ rkept' = IF r.err \in {"Ok", "Skipped"} THEN Append(rkept, rops[ri]) ELSE rkept
       /\ pc' = IF r.err = "Panic" THEN "crashed" ELSE pc
    /\ ri' = ri + 1
    /\ UNCHANGED <<order, item, ret, rops, codecVars, workerVars, callVars>>

(* "item.operations = operations.to_vec(); Some(item)" *)
ReconstructEnd ==
    /\ pc = "recon"
    /\ ri > Len(rops)
    /\ item' = Some([Unwrap(ritem) EXCEPT !.operations = rops])
    /\ pc' = "done"
    /\ UNCHANGED <<order, ret, ritem, rrng, rops, ri, rkept, rlast, codecVars, workerVars, callVars>>

Next ==
    \/ \E b \in BaseIdInputs, s \in Seeds : Generate(b, s)
    \/ \E u \in UniqueIdInputs, s \in Seeds : GenerateUnique(u, s)
    \/ \E c \in CurrencyIdInputs : ApplyCurrency(c)
    \/ \E b \in BaseIdInputs, s \in Seeds, ops \in SeqsUpTo(ReconCurrencyInputs, MaxReconOps) :
           ReconstructBegin(b, s, ops)
    \/ ReconstructStep
    \/ ReconstructEnd

Spec == Init /\ [][Next]_vars

(***************************************************************************)
(* The codec at work: a value is encoded, the bytes are handed to decode   *)
(* as written, cut short, or with one byte overwritten.                    *)
(***************************************************************************)
(* x.encode_to_vec() on a StoredItem *)
EncodeItem(x) ==
    /\ cpc = "start"
    /\ cpc' = "encoded"
    /\ ckind' = "item"
    /\ cinput' = <<x>>
    /\ cbytes' = StoredItem_encode(x)
    /\ UNCHANGED <<cmod, cdec, genVars, workerVars, callVars>>

(* c.encode_to_vec() on an ItemCollection *)
EncodeCollection(items) ==
    /\ cpc = "start"
    /\ cpc' = "encoded"
    /\ ckind' = "collection"
    /\ cinput' = items
    /\ cbytes' = ItemCollection_encode(items)
    /\ UNCHANGED <<cmod, cdec, genVars, workerVars, callVars>>

(* the bytes are cut to their first n *)
Truncate(n) ==
    /\ cpc = "encoded"
    /\ cmod.kind = "none"
    /\ n < Len(cbytes)
    /\ cbytes' = SubSeq(cbytes, 1, n)
    /\ cmod' = [kind |-> "truncated", at |-> n, also |-> 0]
    /\ UNCHANGED <<cpc, ckind, cinput, cdec, genVars, workerVars, callVars>>

(* the byte at position at is overwritten with v *)
Patch(at, v) ==
    /\ cpc = "encoded"
    /\ cmod.kind = "none"
    /\ Len(cbytes) <= MaxPatchLen
    /\ at \in 1..Len(cbytes)
    /\ cbytes[at] # v
    /\ cbytes' = [cbytes EXCEPT ![at] = v]
    /\ cmod' = [kind |-> "patched", at |-> at, also |-> 0]
    /\ UNCHANGED <<cpc, ckind, cinput, cdec, genVars, workerVars, callVars>>

(* a second byte, after the first, is overwritten in the bytes of a short  *)
(* collection                                                              *)
PatchAgain(at, v) ==
    /\ cpc = "encoded"
    /\ ckind = "collection"
    /\ cmod.kind = "patched"
    /\ cmod.also = 0
    /\ Len(cbytes) <= MaxPatchAgainLen
    /\ at \in (cmod.at + 1)..Len(cbytes)
    /\ cbytes[at] # v
    /\ cbytes' = [cbytes EXCEPT ![at] = v]
    /\ cmod' = [cmod EXCEPT !.also = at]
    /\ UNCHANGED <<cpc, ckind, cinput, cdec, genVars, workerVars, callVars>>

(* StoredItem::decode_from_slice(&bytes) *)
DecodeItem ==
    /\ cpc = "encoded"
    /\ ckind = "item"
    /\ cdec' = StoredItem_decode(cbytes)
    /\ cpc' = "decoded"
    /\ UNCHANGED <<ckind, cinput, cbytes, cmod, genVars, workerVars, callVars>>

(* ItemCollection::decode_from_slice(&bytes) *)
DecodeCollection ==
    /\ cpc = "encoded"
    /\ ckind = "collection"
    /\ cdec' = ItemCollection_decode(cbytes)
    /\ cpc' = "decoded"
    /\ UNCHANGED <<ckind, cinput, cbytes, cmod, genVars, workerVars, callVars>>

NextCodec ==
    \/ \E x \in StoredItemInputs : EncodeItem(x)
    \/ \E items \in CollectionInputs : EncodeCollection(items)
    \/ \E n \in 0..(Len(cbytes) - 1) : Truncate(n)
    \/ \E at \in 1..Len(cbytes), v \in PatchBytes : Patch(at, v)
    \/ \E at \in 1..Len(cbytes), v \in PatchBytes : PatchAgain(at, v)
    \/ DecodeItem
    \/ DecodeCollection

SpecCodec == Init /\ [][NextCodec]_vars

(***************************************************************************)
(* Workers sharing one Generator.  Every method of Generator takes &self  *)
(* and Generator holds nothing but its Config: a call leaves the Generator *)
(* as it found it.  Each worker owns its item; the pure apply and          *)
(* reconstruct build their RNG inside the call.                            *)
(***************************************************************************)
(* the result of one call, [res, value]: for generate and reconstruct res  *)
(* is "Some" or "None" (or "Panic"), for apply_currency "Ok" or the error  *)
option_result(x) == [res |-> IF x = None THEN "None" ELSE "Some", value |-> x]

reconstruct_result(r) ==
    IF r.panic THEN [res |-> "Panic", value |-> None] ELSE option_result(r.item)

apply_result(r) == [res |-> r.res, value |-> r.value]

worker_result(g, held, call) ==
    IF call.op = "generate" THEN option_result(generate(call.base, call.seed))
    ELSE IF call.op = "reconstruct"
    THEN reconstruct_result(Generator_reconstruct(g, call.base, call.seed, call.ops))
    ELSE apply_result(Generator_apply_currency(g, Unwrap(held), call.cid))

(* the item a worker holds after a call: the item generate or reconstruct  *)
(* returned, the new item of an apply that returned Ok, else the item held *)
worker_keep(held, call, r) ==
    IF call.op = "apply" THEN (IF r.res = "Ok" THEN r.value ELSE held)
    ELSE IF r.res = "Panic" THEN held
    ELSE r.value

(* the calls of one worker run alone on a Generator g: the item held at    *)
(* the end and the results in order                                        *)
RECURSIVE worker_alone(_, _, _, _)
RECURSIVE worker_alone_step(_, _, _, _, _)
worker_alone(g, held, calls, results) ==
    IF calls = <<>> THEN [held |-> held, results |-> results]
    ELSE worker_alone_step(g, held, calls, results, worker_result(g, held, Head(calls)))

worker_alone_step(g, held, calls, results, r) ==
    worker_alone(g, worker_keep(held, Head(calls), r), Tail(calls), Append(results, r))

WorkerCall(w, call) ==
    /\ Len(wdone[w]) < MaxWorkerCalls
    /\ \E r \in {worker_result(order, witems[w], call)} :
           /\ witems' = [witems EXCEPT ![w] = worker_keep(witems[w], call, r)]
           /\ wdone' = [wdone EXCEPT ![w] = Append(@, [call |-> call, result |-> r])]
    /\ order' = Generator_after_call(order)
    /\ UNCHANGED <<pc, item, ret, ritem, rrng, rops, ri, rkept, rlast, gen0, codecVars, callVars>>

(* worker w calls generator.generate(base, seed) and keeps the result *)
WorkerGenerate(w, base, seed) ==
    \E c \in {[seed |-> seed, base |-> base, cid |-> "", ops |-> <<>>, op |-> "generate"]} :
        WorkerCall(w, c)

(* worker w calls generator.apply_currency(&item, cid) on the item it      *)
(* holds and keeps the new item when the call returns Ok                   *)
WorkerApply(w, cid) ==
    /\ witems[w] # None
    /\ Len(wdone[w]) < MaxWorkerCalls
    /\ \E c \in {[seed |-> 0, base |-> "", cid |-> cid, ops |-> <<>>, op |-> "apply"]} :
       \E r \in {apply_result(Generator_apply_currency(order, Unwrap(witems[w]), cid))} :
           /\ witems' = [witems EXCEPT ![w] = worker_keep(witems[w], c, r)]
           /\ wdone' = [wdone EXCEPT ![w] = Append(@, [call |-> c, result |-> r])]
    /\ order' = Generator_after_call(order)
    /\ UNCHANGED <<pc, item, ret, ritem, rrng, rops, ri, rkept, rlast, gen0, codecVars, callVars>>

(* worker w calls generator.reconstruct(base, seed, ops) and keeps the     *)
(* result                                                                  *)
WorkerReconstruct(w, base, seed, ops) ==
    \E c \in {[seed |-> seed, base |-> base, cid |-> "", ops |-> ops, op |-> "reconstruct"]} :
        WorkerCall(w, c)

NextShared ==
    \/ \E w \in Workers, b \in WorkerBaseInputs, s \in WorkerSeedInputs :
           WorkerGenerate(w, b, s)
    \/ \E w \in Workers, c \in WorkerCurrencyInputs : WorkerApply(w, c)
    \/ \E w \in Workers, b \in WorkerBaseInputs, s \in WorkerSeedInputs :
           WorkerReconstruct(w, b, s, <<"transmute">>)

SpecShared == Init /\ [][NextShared]_vars

(***************************************************************************)
(* generate over base types of every shape: a Config with one base type    *)
(* for each choice of implicit, armour, evasion and energy_shield being    *)
(* configured or not; the id of a base type spells what it has.            *)
(***************************************************************************)
WithImplicit == {"i", "ia", "ie", "is", "iae", "ias", "ies", "iaes"}
WithArmour == {"a", "ia", "ae", "as", "iae", "ias", "aes", "iaes"}
WithEvasion == {"e", "ie", "ae", "es", "iae", "ies", "aes", "iaes"}
WithEnergyShield == {"s", "is", "as", "es", "ias", "ies", "aes", "iaes"}

ShapeIds == WithImplicit \cup WithArmour \cup WithEvasion \cup WithEnergyShield \cup {"plain"}

ShapeBaseTypes ==
    [id \in ShapeIds |->
        [id |-> id, name |-> <<"Base", id>>, class |-> "helmet", tags |-> {},
         implicit |-> IF id \in WithImplicit
                      THEN Some([stat |-> "added_life", min |-> 1, max |-> 3]) ELSE None,
         defenses |-> IF id \in WithArmour \cup WithEvasion \cup WithEnergyShield
                      THEN Some([armour |-> IF id \in WithArmour
                                            THEN Some(RollRange(2, 5)) ELSE None,
                                 evasion |-> IF id \in WithEvasion
                                             THEN Some(RollRange(1, 2)) ELSE None,
                                 energy_shield |-> IF id \in WithEnergyShield
                                                   THEN Some(RollRange(5, 9)) ELSE None])
                      ELSE None,
         damage |-> None,
         requirements |-> [level |-> 1]]]

ShapeIdInputs == ShapeIds \cup {"no_such_base"}
ShapeSeedInputs == 0..MaxShapeSeed

(* generator.generate(base_type_id, seed) on the Generator of that Config *)
GenerateShape(base_type_id, seed) ==
    /\ pc = "start"
    /\ item' = generate_in(ShapeBaseTypes, base_type_id, seed)
    /\ pc' = IF IsSome(item') THEN "normal" ELSE "absent"
    /\ UNCHANGED <<order, ret, ritem, rrng, rops, ri, rkept, rlast, codecVars, workerVars, callVars>>

NextGenerate == \E b \in ShapeIdInputs, s \in ShapeSeedInputs : GenerateShape(b, s)

SpecGenerate == Init /\ [][NextGenerate]_vars


(***************************************************************************)
(* Single calls of the engine's functions on arguments of every shape, by  *)
(* a Generator with either table order.                                    *)
(***************************************************************************)
(* Generator::roll_affix_from_pools(class, item_tags, affix_type,          *)
(* existing_affix_ids, pools, item_level, rng)                             *)
CallRollAffix(class, item_tags, affix_type, existing_affix_ids, pools, item_level, seed) ==
    /\ pin.op = ""
    /\ pin' = [op |-> "roll_affix_from_pools", class |-> class, item_tags |-> item_tags,
               affix_type |-> affix_type, existing_affix_ids |-> existing_affix_ids,
               pools |-> pools, item_level |-> item_level, rng |-> make_rng(seed)]
    /\ \E r \in {roll_affix_from_pools(order, class, item_tags, affix_type,
                                        existing_affix_ids, pools, item_level,
                                        make_rng(seed))} :
           pout' = r
    /\ UNCHANGED <<genVars, codecVars, workerVars>>

(* currency configurations beyond the table's: a currency that only sets  *)
(* the rarity, with and without clear_affixes, open to every rarity        *)
RarityCurrencies ==
    { [id |-> "set_rarity_only",
       requires |-> [rarities |-> {"normal", "magic", "rare"}, has_affix |-> FALSE,
                     has_affix_slot |-> FALSE],
       effects |-> [NoEffects EXCEPT !.set_rarity = Some(r), !.clear_affixes = c]] :
      r \in {"normal", "magic"}, c \in BOOLEAN }

(* one call of apply_currency with a currency configuration, the table's  *)
(* or another, on an item that generate and the table's currencies gave    *)
CallApplyCurrency(base_type_id, seed, operations, currency) ==
    /\ pin.op = ""
    /\ \E made \in {Generator_reconstruct(order, base_type_id, seed, operations)} :
           /\ IsSome(made.item)
           /\ \E rng \in {replay_rng(order, Unwrap(made.item)).rng} :
               /\ pin' = [op |-> "apply_currency", item |-> Unwrap(made.item),
                          currency |-> currency, rng |-> rng]
               /\ \E r \in {apply_currency(order, Unwrap(made.item), currency, rng)} :
                      pout' = r
    /\ UNCHANGED <<genVars, codecVars, workerVars>>

NextCalls ==
    \/ \E class \in {"one_hand_sword", "helmet"},
          item_tags \in {{"weapon", "melee"}, {"armour"}, {}},
          affix_type \in {"prefix", "suffix"},
          existing_affix_ids \in {{}, {"b_sturdy"}, {"d_warding", "e_sage"}},
          pools \in {<<>>, <<"weapon_basic">>, BothPools, <<"missing_pool">>,
                     <<"hollow_basic">>},
          item_level \in {1, 10, 40},
          seed \in Seeds :
           CallRollAffix(class, item_tags, affix_type, existing_affix_ids, pools,
                         item_level, seed)
    \/ \E base_type_id \in DOMAIN BaseTypes, seed \in Seeds,
          operations \in {<<>>, <<"transmute">>, <<"alchemy">>, <<"transmute", "augment">>},
          currency \in RarityCurrencies \cup {Currencies["chaos"], Currencies["swap"]} :
           CallApplyCurrency(base_type_id, seed, operations, currency)

SpecCalls == Init /\ [][NextCalls]_vars

(***************************************************************************)
(* Properties                                                              *)
(***************************************************************************)
Derived(it) ==
    [name |-> it.name, rarity |-> it.rarity, implicit |-> it.implicit,
     defenses |-> it.defenses, prefixes |-> it.prefixes, suffixes |-> it.suffixes]

AllMods(it) == it.prefixes \o it.suffixes

CurrencyErrors ==
    {"InvalidRarity", "NoAffixSlots", "NoAffixesToRemove", "NoValidAffixes",
     "NoMatchingRecipe", "AffixNotFound", "AffixAlreadyPresent", "AffixNotAllowed",
     "TierNotFound", "NoAffixPoolsSpecified", "UnknownCurrency"}

(* C1: an item made by generate and successful pure applies is what        *)
(* reconstruct returns for its (base, seed, op log): the same derived      *)
(* fields and the same op log; with an empty log reconstruct returns what  *)
(* generate returns.                                                       *)
C1_ReconstructEqualsPureApplies ==
    pc = "normal" =>
        LET it == Unwrap(item)
            r == Generator_reconstruct(order, it.base_type_id, it.seed, it.operations)
        IN /\ ~r.panic
           /\ IsSome(r.item)
           /\ Derived(Unwrap(r.item)) = Derived(it)
           /\ Unwrap(r.item).operations = it.operations
           /\ (it.operations = <<>> => r.item = generate(it.base_type_id, it.seed))

C1_Witness ==
    /\ pc = "normal"
    /\ Len(Unwrap(item).operations) >= 2
    /\ AllMods(Unwrap(item)) # <<>>
    /\ ret.res = "Ok"

(* C2: the derived fields of an item depend only on (base, seed, op log)   *)
(* and the table contents: reconstructing its triple with a Generator      *)
(* whose affix table iterates in any other order gives the same derived    *)
(* fields.                                                                 *)
C2_OrderIndependent ==
    pc = "normal" =>
        \A o \in AffixOrders :
            LET it == Unwrap(item)
                r == Generator_reconstruct(o, it.base_type_id, it.seed, it.operations)
            IN /\ ~r.panic
               /\ IsSome(r.item)
               /\ Derived(Unwrap(r.item)) = Derived(it)

(* C3: when the pure apply returns a CurrencyError, the caller's item is   *)
(* the item it passed in, in every field, and its op log has not grown.    *)
C3_PureFailureLeavesItem ==
    ret.res \in CurrencyErrors =>
        /\ ret.arg = ret.before
        /\ item = ret.before
        /\ ret.value = None

C3_Witness ==
    /\ ret.cid = "shatter"
    /\ ret.res = "NoAffixesToRemove"
    /\ Unwrap(item).rarity = "normal"

(* C4: when the stateful apply returns an error, the item passed in has    *)
(* not been mutated.                                                       *)
C4_StatefulFailureLeavesItem ==
    rlast.err \in CurrencyErrors => ritem = rlast.before

(* C5: reconstruct gives the same derived fields as reconstruct on the     *)
(* operation list without the operations whose application failed.         *)
C5_FailedOperationIsNoOp ==
    pc = "done" =>
        LET it == Unwrap(item)
            r == Generator_reconstruct(order, it.base_type_id, it.seed, rkept)
        IN /\ ~r.panic
           /\ IsSome(r.item)
           /\ Derived(Unwrap(r.item)) = Derived(it)

C7_CanApplyIffRequirements ==
    /\ pc \in {"normal", "unique"} =>
           \A c \in DOMAIN Currencies :
               can_apply_currency(Unwrap(item), c)
                   <=> (check_requirements(Unwrap(item), Currencies[c]) = "Ok")
    /\ ret.res = "Ok" => can_apply_currency(Unwrap(ret.before), ret.cid)

(* C8 as stated: no two modifiers of an item share an affix_id.            *)
C8_AffixIdsUnique ==
    pc \in {"normal", "unique"} =>
        LET all == AllMods(Unwrap(item)) IN
        \A i, j \in 1..Len(all) : i # j => all[i].affix_id # all[j].affix_id

(* C8 amended: no two modifiers rolled from the affix table share an       *)
(* affix_id; modifiers sharing an affix_id are the mods of one unique,     *)
(* which all carry "unique_" + unique_id.                                  *)
C8_AffixDerivedIdsUnique ==
    pc \in {"normal", "unique"} =>
        LET all == AllMods(Unwrap(item)) IN
        \A i, j \in 1..Len(all) :
            (i # j /\ all[i].affix_id = all[j].affix_id) =>
                /\ all[i].affix_id \notin DOMAIN Affixes
                /\ \E u \in DOMAIN Uniques : all[i].affix_id = unique_affix_id(u)

C8_Witness ==
    /\ pc = "normal"
    /\ ret.res = "Ok"
    /\ LET all == AllMods(Unwrap(item)) IN
       /\ Len(all) >= 3
       /\ \A i \in 1..Len(all) : all[i].affix_id \in DOMAIN Affixes

(* C9: after generate, generate_unique and every successful currency       *)
(* application the prefix and suffix counts are within the caps of the     *)
(* item's rarity.                                                          *)
C9_SlotCaps ==
    pc \in {"normal", "unique"} =>
        /\ Len(Unwrap(item).prefixes) <= max_prefixes(Unwrap(item).rarity)
        /\ Len(Unwrap(item).suffixes) <= max_suffixes(Unwrap(item).rarity)

EveryMod(it) == it.implicit \o it.prefixes \o it.suffixes

ModifierInRange(m) ==
    /\ m.tier_min <= m.value
    /\ m.value <= m.tier_max
    /\ IsSome(m.value_max) =>
           /\ IsSome(m.tier_max_value)
           /\ Unwrap(m.tier_max_value).min <= Unwrap(m.value_max)
           /\ Unwrap(m.value_max) <= Unwrap(m.tier_max_value).max

(* C11: in every item the caller holds, each modifier has tier_min <=      *)
(* value <= tier_max and a value_max inside the recorded tier_max_value    *)
(* range; a modifier rolled from the affix table has the stat of its       *)
(* affix; a modifier of a unique has a value inside [min, max] of a mod of *)
(* that unique with its stat.                                              *)
C11_ModifierValuesInRange ==
    IsSome(item) =>
        \A i \in 1..Len(EveryMod(Unwrap(item))) :
            LET m == EveryMod(Unwrap(item))[i] IN
            /\ ModifierInRange(m)
            /\ m.affix_id \in DOMAIN Affixes => m.stat = Affixes[m.affix_id].stat
            /\ \A u \in DOMAIN Uniques :
                   m.affix_id = unique_affix_id(u) =>
                       \E k \in 1..Len(Uniques[u].mods) :
                           /\ Uniques[u].mods[k].stat = m.stat
                           /\ Uniques[u].mods[k].min <= m.value
                           /\ m.value <= Uniques[u].mods[k].max

(* a unique made by try_unique whose second mod is mapped in Direct mode   *)
(* from an added_life prefix whose value lies below the mod's range        *)
C11_Witness ==
    /\ ret.cid = "catalyst"
    /\ ret.res = "Ok"
    /\ Unwrap(item).rarity = "unique"
    /\ Len(Unwrap(item).prefixes) = 2
    /\ \E i \in 1..Len(Unwrap(ret.before).prefixes) :
           /\ Unwrap(ret.before).prefixes[i].stat = "added_life"
           /\ Unwrap(ret.before).prefixes[i].value < 20
    /\ \E i \in 1..Len(Unwrap(ret.before).prefixes) :
           IsSome(Unwrap(ret.before).prefixes[i].value_max)

(* C12: every modifier rolled from the affix table, by a random roll or by *)
(* add_specific_affix, names an affix whose allowed_classes is empty or    *)
(* contains the item's class.                                              *)
C12_ClassRestriction ==
    IsSome(item) =>
        \A i \in 1..Len(AllMods(Unwrap(item))) :
            LET id == AllMods(Unwrap(item))[i].affix_id IN
            id \in DOMAIN Affixes =>
                \/ Affixes[id].allowed_classes = {}
                \/ Unwrap(item).class \in Affixes[id].allowed_classes

(* a random roll on a helmet, with the sword-only a_flaming in the pools,  *)
(* and an add_specific_affix that picked a class-restricted affix          *)
C12_Witness ==
    /\ pc = "normal"
    /\ ret.res = "Ok"
    /\ Len(Unwrap(item).operations) = 2
    /\ Unwrap(item).operations[1] = "transmute"
    /\ ret.cid = "imbue"
    /\ Unwrap(item).class = "helmet"
    /\ \E i \in 1..Len(Unwrap(item).suffixes) :
           Unwrap(item).suffixes[i].affix_id = "d_warding"
    /\ Unwrap(item).prefixes # <<>>

(* the RNG of generate when it returns: seeded from the seed and advanced  *)
(* by the draw for the implicit and the draws for the present defenses     *)
rng_after_generate(base_type_id, seed) ==
    roll_initial(BaseTypes[base_type_id], new_normal(BaseTypes[base_type_id], seed),
                 make_rng(seed)).rng

(* C13: the first operation of reconstruct, and the pure apply on an item  *)
(* with an empty op log, draw from the stream of the item's seed at the    *)
(* position where generate's draws ended: no draw is consumed in between.  *)
C13_RngContinuity ==
    /\ (pc = "recon" /\ ri = 1) =>
           rrng = rng_after_generate(Unwrap(ritem).base_type_id, Unwrap(ritem).seed)
    /\ (pc = "normal" /\ Unwrap(item).operations = <<>>) =>
           replay_rng(order, Unwrap(item)).rng
               = rng_after_generate(Unwrap(item).base_type_id, Unwrap(item).seed)

(* the rarity the item has after set_rarity of the effects, the modifier   *)
(* counts it has after clear_affixes of the effects                        *)
TargetRarity(it, effects) ==
    IF IsSome(effects.set_rarity) THEN Unwrap(effects.set_rarity) ELSE it.rarity

CountAfterClear(mods, effects) == IF effects.clear_affixes THEN 0 ELSE Len(mods)

(* the requirement checks that come before has_affix_slot pass *)
PassesRarityAndHasAffix(it, reqs) ==
    /\ reqs.rarities = {} \/ it.rarity \in reqs.rarities
    /\ ~reqs.has_affix \/ it.prefixes # <<>> \/ it.suffixes # <<>>

(* both counts after the hypothetical clear are at or above the caps of    *)
(* the target rarity                                                       *)
NoSlotAtTarget(it, effects) ==
    /\ CountAfterClear(it.prefixes, effects) >= max_prefixes(TargetRarity(it, effects))
    /\ CountAfterClear(it.suffixes, effects) >= max_suffixes(TargetRarity(it, effects))

(* C14 as stated: a pure apply of a currency that requires has_affix_slot  *)
(* fails with NoAffixSlots exactly when the prefix count and the suffix    *)
(* count after the hypothetical clear are both at or above the caps of the *)
(* target rarity; the item is then unchanged.                              *)
C14_NoAffixSlotsIffFull ==
    (ret.cid \in DOMAIN Currencies /\ Currencies[ret.cid].requires.has_affix_slot) =>
        /\ ret.res = "NoAffixSlots"
               <=> NoSlotAtTarget(Unwrap(ret.before), Currencies[ret.cid].effects)
        /\ ret.res = "NoAffixSlots" => item = ret.before /\ ret.arg = ret.before

(* C14 amended: the same, for an item that passes the rarity and has_affix *)
(* requirements, which are checked first (a failing one gives its own      *)
(* error); NoAffixSlots comes from no other currency.                      *)
C14_NoAffixSlotsIffFullAfterEarlierChecks ==
    ret.cid \in DOMAIN Currencies =>
        /\ ret.res = "NoAffixSlots"
               <=> /\ Currencies[ret.cid].requires.has_affix_slot
                   /\ PassesRarityAndHasAffix(Unwrap(ret.before), Currencies[ret.cid].requires)
                   /\ NoSlotAtTarget(Unwrap(ret.before), Currencies[ret.cid].effects)
        /\ ret.res = "NoAffixSlots" => item = ret.before /\ ret.arg = ret.before

(* a magic item with one prefix and one suffix refused by augment *)
C14_Witness ==
    /\ ret.cid = "augment"
    /\ ret.res = "NoAffixSlots"
    /\ Unwrap(item).rarity = "magic"
    /\ Len(Unwrap(item).prefixes) = 1
    /\ Len(Unwrap(item).suffixes) = 1

(* the candidate c of add_specific_affix can be added to the item as the   *)
(* effects would leave it: its affix exists, is not on the item (unless    *)
(* the effects clear), allows the item's class, and its kind has a free    *)
(* slot at the target rarity after the hypothetical clear                  *)
SpecificAddable(it, c, effects) ==
    /\ c.id \in DOMAIN Affixes
    /\ effects.clear_affixes \/ c.id \notin ExistingIds(it)
    /\ \/ Affixes[c.id].allowed_classes = {}
       \/ it.class \in Affixes[c.id].allowed_classes
    /\ IF Affixes[c.id].affix_type = "prefix"
       THEN CountAfterClear(it.prefixes, effects) < max_prefixes(TargetRarity(it, effects))
       ELSE CountAfterClear(it.suffixes, effects) < max_suffixes(TargetRarity(it, effects))

NoneAddable(it, effects) ==
    /\ effects.add_specific_affix # <<>>
    /\ \A i \in 1..Len(effects.add_specific_affix) :
           ~SpecificAddable(it, effects.add_specific_affix[i], effects)

(* the requirement checks that come before the specific-affix check pass *)
PassesEarlierChecks(it, currency) ==
    /\ PassesRarityAndHasAffix(it, currency.requires)
    /\ ~(currency.requires.has_affix_slot /\ NoSlotAtTarget(it, currency.effects))

(* C15 as stated: when no candidate of a non-empty add_specific_affix list *)
(* is addable, the pure apply and the stateful apply fail with             *)
(* NoValidAffixes and leave the item as it was.                            *)
C15_NoAddableCandidateFailsNoValidAffixes ==
    /\ (ret.cid \in DOMAIN Currencies
            /\ NoneAddable(Unwrap(ret.before), Currencies[ret.cid].effects)) =>
           /\ ret.res = "NoValidAffixes"
           /\ item = ret.before
           /\ ret.arg = ret.before
    /\ (rlast.cid \in DOMAIN Currencies
            /\ NoneAddable(Unwrap(rlast.before), Currencies[rlast.cid].effects)) =>
           /\ rlast.err = "NoValidAffixes"
           /\ ritem = rlast.before

(* C15 amended: when no candidate is addable the apply fails before any    *)
(* effect runs, the item (and the RNG of the stateful apply) left as it    *)
(* was; the error is NoValidAffixes when the rarity, has_affix and         *)
(* has_affix_slot requirements pass, else the error of the failing one.    *)
C15_NoAddableCandidateFailsBeforeEffects ==
    /\ (ret.cid \in DOMAIN Currencies
            /\ NoneAddable(Unwrap(ret.before), Currencies[ret.cid].effects)) =>
           /\ ret.res \in {"InvalidRarity", "NoAffixesToRemove", "NoAffixSlots", "NoValidAffixes"}
           /\ PassesEarlierChecks(Unwrap(ret.before), Currencies[ret.cid])
                  => ret.res = "NoValidAffixes"
           /\ item = ret.before
           /\ ret.arg = ret.before
    /\ (rlast.cid \in DOMAIN Currencies
            /\ NoneAddable(Unwrap(rlast.before), Currencies[rlast.cid].effects)) =>
           /\ rlast.err \in {"InvalidRarity", "NoAffixesToRemove", "NoAffixSlots", "NoValidAffixes"}
           /\ PassesEarlierChecks(Unwrap(rlast.before), Currencies[rlast.cid])
                  => rlast.err = "NoValidAffixes"
           /\ ritem = rlast.before
           /\ rrng = rlast.rng_before

(* the stateful apply of brand (set_rarity = rare, the helmet-only         *)
(* d_warding) on a normal sword, after a transmute that succeeded          *)
C15_Witness ==
    /\ pc = "recon"
    /\ rlast.cid = "brand"
    /\ rlast.err = "NoValidAffixes"
    /\ Unwrap(ritem).class = "one_hand_sword"
    /\ Unwrap(ritem).rarity = "magic"
    /\ rkept = <<"transmute">>

(* a currency whose only effects on the modifier lists are add_affixes *)
AddAffixesOnly(currency) ==
    /\ IsSome(currency.effects.add_affixes)
    /\ ~currency.effects.clear_affixes
    /\ currency.effects.remove_affixes = None
    /\ currency.effects.reroll_affixes = None
    /\ currency.effects.add_specific_affix = <<>>
    /\ ~currency.effects.try_unique

(* the kinds that have a free slot on the item *)
FreeKinds(it) ==
    {k \in {"prefix", "suffix"} :
        IF k = "prefix" THEN can_add_prefix(it) ELSE can_add_suffix(it)}

(* the kinds for which the pools hold an affix that can still be rolled    *)
(* for the item                                                            *)
RollableKinds(o, it, pools) ==
    {k \in {"prefix", "suffix"} :
        candidate_affixes(o, it.class, it.tags, k, ExistingIds(it), pools) # <<>>}

(* every affix of the table has a tier open to the item's level: a roll    *)
(* with a candidate yields a modifier                                      *)
EveryAffixOpen(it) ==
    \A id \in DOMAIN Affixes :
        eligible_tiers_for(Affixes[id], it.requirements.level) # <<>>

IsPrefixOf(s, t) == Len(s) <= Len(t) /\ SubSeq(t, 1, Len(s)) = s

NeedsPoolsWithoutPools(effects) ==
    /\ IsSome(effects.add_affixes) \/ IsSome(effects.reroll_affixes)
    /\ effects.affix_pools = <<>>

AppliedTo(cid) == ret.cid = cid /\ IsSome(ret.before) /\ ret.res # "Panic"

LastAffixId(mods) == IF mods = <<>> THEN "" ELSE mods[Len(mods)].affix_id

C18_EffectsPipelineOrder ==
    /\ (AppliedTo("scour") /\ ret.res = "Ok") =>
           /\ Unwrap(ret.value).rarity = "normal"
           /\ AllMods(Unwrap(ret.value)) = <<>>
           /\ Unwrap(ret.value).name = Unwrap(ret.value).base_name
    /\ (AppliedTo("purge") /\ AllMods(Unwrap(ret.before)) # <<>>) =>
           ret.res = "NoAffixesToRemove"
    /\ (AppliedTo("swap") /\ Unwrap(ret.before).rarity = "magic"
                          /\ Len(AllMods(Unwrap(ret.before))) = 1) =>
           ret.res = "NoAffixesToRemove"
    /\ (AppliedTo("mix") /\ Unwrap(ret.before).rarity = "normal") =>
           ret.res = "NoAffixesToRemove"
    /\ (AppliedTo("grant") /\ ret.res = "Ok") =>
           /\ Unwrap(ret.value).rarity = "rare"
           /\ Len(AllMods(Unwrap(ret.value))) = 2
           /\ LastAffixId(Unwrap(ret.value).suffixes) = "e_sage"
    /\ (AppliedTo("forge") /\ Unwrap(ret.before).rarity = "normal"
                           /\ Unwrap(ret.before).base_type_id = "iron_sword") =>
           /\ ret.res = "Ok"
           /\ Unwrap(ret.value).rarity = "unique"
           /\ Unwrap(ret.value).name = Uniques["emberbrand"].name
           /\ \A i \in 1..Len(AllMods(Unwrap(ret.value))) :
                  AllMods(Unwrap(ret.value))[i].affix_id = "unique_emberbrand"

(* forge has made a normal iron_sword a unique in one application *)
C18_Witness ==
    /\ ret.cid = "forge"
    /\ ret.res = "Ok"
    /\ Unwrap(ret.before).rarity = "normal"
    /\ Unwrap(item).rarity = "unique"

(***************************************************************************)
(* C19: a currency with an empty effects block whose requirements hold     *)
(*   - gives, when the pure apply returns, an item with the derived fields *)
(*     of the input and the input's op log with one operation appended;    *)
(*   - draws nothing that a later operation sees: the application that     *)
(*     follows it has the result and the derived fields it has on the same *)
(*     item without that operation in its log.                             *)
(***************************************************************************)
EmptyEffects(cid) == cid \in DOMAIN Currencies /\ Currencies[cid].effects = NoEffects

WithoutLastOperation(it) ==
    [it EXCEPT !.operations = SubSeq(it.operations, 1, Len(it.operations) - 1)]

SameOutcome(a, b) ==
    /\ a.res = b.res
    /\ IsSome(a.value) <=> IsSome(b.value)
    /\ IsSome(a.value) => Derived(Unwrap(a.value)) = Derived(Unwrap(b.value))

C19_EmptyEffectsIsNoOp ==
    /\ ( /\ EmptyEffects(ret.cid)
         /\ ret.res # "Panic"
         /\ check_requirements(Unwrap(ret.before), Currencies[ret.cid]) = "Ok" ) =>
            /\ ret.res = "Ok"
            /\ Derived(Unwrap(ret.value)) = Derived(Unwrap(ret.before))
            /\ Unwrap(ret.value).operations = Append(Unwrap(ret.before).operations, ret.cid)
    /\ ( /\ IsSome(ret.before)
         /\ Unwrap(ret.before).operations # <<>>
         /\ EmptyEffects(Unwrap(ret.before).operations[Len(Unwrap(ret.before).operations)]) ) =>
            SameOutcome(ret, Generator_apply_currency(order,
                                 WithoutLastOperation(Unwrap(ret.before)), ret.cid))

(* the empty currency applied to an item that already carries affixes *)
C19_Witness ==
    /\ ret.cid = "blank"
    /\ ret.res = "Ok"
    /\ Len(Unwrap(item).operations) = 2
    /\ AllMods(Unwrap(item)) # <<>>

(***************************************************************************)
(* C20: clear_affixes is idempotent on derived state.  For the currency    *)
(* whose only effect is clear_affixes, applied through the pure apply:     *)
(*   - an application that follows an application of it returns the        *)
(*     derived fields it was given, with one more operation in the log;    *)
(*   - on every item the caller holds, an application of it that returns   *)
(*     an item can be repeated on that item, and gives the same derived    *)
(*     fields and a longer log.                                            *)
(***************************************************************************)
ClearOnly(cid) ==
    /\ cid \in DOMAIN Currencies
    /\ Currencies[cid].effects = [NoEffects EXCEPT !.clear_affixes = TRUE]

LastOperation(it) ==
    IF it.operations = <<>> THEN None ELSE Some(it.operations[Len(it.operations)])

ApplyTwice(o, it, cid, once) ==
    IF once.res # "Ok" THEN once ELSE Generator_apply_currency(o, Unwrap(once.value), cid)

(* once is the result of the first application, twice of the second; the   *)
(* currency has no requirement, so no application of it returns an error;  *)
(* an application that aborts while the log is replayed returns no item.   *)
OnceEqualsTwice(once, twice) ==
    /\ once.res \notin CurrencyErrors
    /\ once.res = "Ok" =>
           /\ twice.res = "Ok"
           /\ Derived(Unwrap(twice.value)) = Derived(Unwrap(once.value))
           /\ Len(Unwrap(twice.value).operations) = Len(Unwrap(once.value).operations) + 1

C20_ClearAffixesIdempotent ==
    /\ ( /\ ClearOnly(ret.cid)
         /\ LastOperation(Unwrap(ret.before)) = Some(ret.cid) ) =>
            /\ ret.res = "Ok"
            /\ Derived(Unwrap(ret.value)) = Derived(Unwrap(ret.before))
            /\ Unwrap(ret.value).operations = Append(Unwrap(ret.before).operations, ret.cid)
    /\ pc \in {"normal", "unique"} =>
            \A cid \in {c \in DOMAIN Currencies : ClearOnly(c)} :
                \E once \in {Generator_apply_currency(order, Unwrap(item), cid)} :
                    OnceEqualsTwice(once, ApplyTwice(order, Unwrap(item), cid, once))

(* the second of two applications in a row, the first of which emptied the *)
(* lists of a unique item                                                  *)
C20_Witness ==
    /\ ret.cid = "wipe"
    /\ ret.res = "Ok"
    /\ Unwrap(item).operations = <<"wipe", "wipe">>
    /\ Unwrap(item).rarity = "unique"
    /\ AllMods(Unwrap(item)) = <<>>

(***************************************************************************)
(* C21: a successful try_unique makes the item the unique of some recipe:  *)
(* rarity unique, the unique's name, the previous prefixes and suffixes    *)
(* gone, and one modifier per unique mod, in mod order, with affix_id      *)
(* "unique_" + unique_id, scope global, tier 0 and a value in the mod's    *)
(* range.  In the stateful apply, where the RNG the call started from is   *)
(* known, the value follows the mapping rules on the item as it was: the   *)
(* draw r when the mod is unmapped, the mode is random, the source stat is *)
(* absent or the influence is <= 0; the clamped original value for a       *)
(* direct mapping of influence >= 1.                                       *)
(***************************************************************************)
(* the k-th 32-bit draw after rng, taken as gen_range(lo..=hi) *)
DrawnInRange(rng, k, lo, hi) == lo + (Stream(rng.seed, rng.pos + k) % (hi - lo + 1))

MappingsTo(recipe, mod_index) ==
    SelectSeq(recipe.mappings, LAMBDA m : m.to_mod_index = mod_index)

SourceValues(before, stat) ==
    {AllMods(before)[i].value : i \in {j \in 1..Len(AllMods(before)) : AllMods(before)[j].stat = stat}}

ValueByMappingRules(found, mod_cfg, r, before, v) ==
    IF found = <<>> THEN v = r
    ELSE IF \/ found[1].mode = "random"
            \/ SourceValues(before, found[1].from_stat) = {}
            \/ found[1].influence.num <= 0
    THEN v = r
    ELSE IF found[1].mode = "direct" /\ found[1].influence.num >= found[1].influence.den
    THEN \E o \in SourceValues(before, found[1].from_stat) : v = Clamp(o, mod_cfg.min, mod_cfg.max)
    ELSE v \in mod_cfg.min..mod_cfg.max

UniqueShape(recipe, before, after) ==
    /\ recipe.unique_id \in DOMAIN Uniques
    /\ after.rarity = "unique"
    /\ after.name = Uniques[recipe.unique_id].name
    /\ [after EXCEPT !.rarity = before.rarity, !.name = before.name,
                     !.prefixes = before.prefixes, !.suffixes = before.suffixes,
                     !.operations = before.operations] = before
    /\ Len(AllMods(after)) = Len(Uniques[recipe.unique_id].mods)
    /\ \A i \in 1..Len(AllMods(after)) :
           /\ AllMods(after)[i].affix_id = unique_affix_id(recipe.unique_id)
           /\ AllMods(after)[i].stat = Uniques[recipe.unique_id].mods[i].stat
           /\ AllMods(after)[i].scope = "global"
           /\ AllMods(after)[i].tier = 0
           /\ AllMods(after)[i].value \in Uniques[recipe.unique_id].mods[i].min ..
                                          Uniques[recipe.unique_id].mods[i].max

UniqueValues(recipe, before, rng, after) ==
    \A i \in 1..Len(AllMods(after)) :
        ValueByMappingRules(MappingsTo(recipe, i - 1), Uniques[recipe.unique_id].mods[i],
                            DrawnInRange(rng, i, Uniques[recipe.unique_id].mods[i].min,
                                         Uniques[recipe.unique_id].mods[i].max),
                            before, AllMods(after)[i].value)

TryUniqueOnly(cid) ==
    /\ cid \in DOMAIN Currencies
    /\ Currencies[cid].effects = [NoEffects EXCEPT !.try_unique = TRUE]

C21_TryUniqueTransformation ==
    /\ (TryUniqueOnly(rlast.cid) /\ rlast.err = "Ok") =>
           \E k \in 1..Len(UniqueRecipes) :
               /\ UniqueShape(UniqueRecipes[k], Unwrap(rlast.before), Unwrap(ritem))
               /\ UniqueValues(UniqueRecipes[k], Unwrap(rlast.before), rlast.rng_before,
                               Unwrap(ritem))
    /\ (TryUniqueOnly(ret.cid) /\ ret.res = "Ok") =>
           \E k \in 1..Len(UniqueRecipes) :
               UniqueShape(UniqueRecipes[k], Unwrap(ret.before), Unwrap(ret.value))

(* a rare sword with both a_flaming and b_sturdy became Emberbrand: the    *)
(* second mod is the direct mapping of the added_life the item carried     *)
C21_Witness ==
    /\ rlast.cid = "catalyst"
    /\ rlast.err = "Ok"
    /\ Unwrap(ritem).name = Uniques["emberbrand"].name
    /\ SourceValues(Unwrap(rlast.before), "added_life") # {}

(***************************************************************************)
(* C22: try_unique takes a recipe as matching iff its base_type is the     *)
(* item's base_type_id and every required affix is met by a modifier of    *)
(* the item with that stat and a tier within [min_tier, max_tier] which,   *)
(* when affix_type is set, stands in the list of that kind.  With no       *)
(* matching recipe the application fails with NoMatchingRecipe and leaves  *)
(* the item and the RNG; a successful one gives the unique of a matching   *)
(* recipe.                                                                 *)
(***************************************************************************)
ListOfKind(it, kind) ==
    IF kind = None THEN AllMods(it)
    ELSE IF kind = Some("prefix") THEN it.prefixes ELSE it.suffixes

RequiredAffixMatched(req, it) ==
    \E i \in 1..Len(ListOfKind(it, req.affix_type)) :
        /\ ListOfKind(it, req.affix_type)[i].stat = req.stat
        /\ ListOfKind(it, req.affix_type)[i].tier \in req.min_tier..req.max_tier

Matching(recipe, it) ==
    /\ recipe.base_type = it.base_type_id
    /\ \A i \in 1..Len(recipe.required_affixes) :
           RequiredAffixMatched(recipe.required_affixes[i], it)

MatchingRecipes(it) == {k \in 1..Len(UniqueRecipes) : Matching(UniqueRecipes[k], it)}

IsUniqueOfSome(K, it) ==
    \E k \in K :
        /\ it.rarity = "unique"
        /\ it.name = Uniques[UniqueRecipes[k].unique_id].name
        /\ \A i \in 1..Len(AllMods(it)) :
               AllMods(it)[i].affix_id = unique_affix_id(UniqueRecipes[k].unique_id)

C22_RecipeMatching ==
    /\ pc \in {"normal", "unique"} =>
           \A k \in 1..Len(UniqueRecipes) :
               recipe_matches(UniqueRecipes[k], Unwrap(item))
                   <=> Matching(UniqueRecipes[k], Unwrap(item))
    /\ ( /\ TryUniqueOnly(rlast.cid)
         /\ check_requirements(Unwrap(rlast.before), Currencies[rlast.cid]) = "Ok" ) =>
           /\ MatchingRecipes(Unwrap(rlast.before)) = {} =>
                  /\ rlast.err = "NoMatchingRecipe"
                  /\ ritem = rlast.before
                  /\ rrng = rlast.rng_before
           /\ rlast.err = "Ok" =>
                  IsUniqueOfSome(MatchingRecipes(Unwrap(rlast.before)), Unwrap(ritem))
    /\ ( /\ TryUniqueOnly(ret.cid)
         /\ ret.res # "Panic"
         /\ check_requirements(Unwrap(ret.before), Currencies[ret.cid]) = "Ok" ) =>
           /\ MatchingRecipes(Unwrap(ret.before)) = {} => ret.res = "NoMatchingRecipe"
           /\ ret.res = "Ok" =>
                  IsUniqueOfSome(MatchingRecipes(Unwrap(ret.before)), Unwrap(ret.value))

(* a former Quickblade made magic again: its prefixes carry the recipe's   *)
(* stat at a tier the recipe accepts, but the recipe asks for a suffix: no  *)
(* recipe matches                                                          *)
C22_Witness ==
    /\ ret.cid = "catalyst"
    /\ ret.res = "NoMatchingRecipe"
    /\ Unwrap(item).rarity = "magic"
    /\ \E i \in 1..Len(Unwrap(item).prefixes) :
           /\ Unwrap(item).prefixes[i].stat = "increased_attack_speed"
           /\ Unwrap(item).prefixes[i].tier = 0

(***************************************************************************)
(* C23: codec round trip: for every StoredItem and every ItemCollection,   *)
(* decoding the bytes encode wrote succeeds and returns the same           *)
(* base_type_id, seed and ordered operation list for each item, in the     *)
(* same item order.                                                        *)
(***************************************************************************)
(* decode has run on the encoder's output as written *)
RoundTripped == cpc = "decoded" /\ cmod.kind = "none"

(* the value that was encoded *)
Encoded == IF ckind = "item" THEN cinput[1] ELSE cinput

C23_RoundTrip ==
    RoundTripped => (cdec.err = "Ok" /\ cdec.value = Some(Encoded))

(* a base_type_id of 256 bytes comes back as its first 255 bytes *)
C23_TruncatedId ==
    /\ RoundTripped
    /\ ckind = "item"
    /\ cinput[1].base_type_id = StrLong
    /\ cdec.err = "Ok"
    /\ Unwrap(cdec.value).base_type_id = SubSeq(StrLong, 1, 255)

(***************************************************************************)
(* C24: collection encoding interns strings: the written string table      *)
(* contains every distinct referenced string (base type ids and currency   *)
(* ids) exactly once, in order of first appearance when the items are      *)
(* scanned in order with each item's base id before its operations, and    *)
(* every index written for an item or operation refers to the table entry  *)
(* equal to the original string.                                           *)
(***************************************************************************)
(* the positions at which a string of strs appears for the first time *)
FirstIndices(strs) == {i \in 1..Len(strs) : \A j \in 1..(i - 1) : strs[j] # strs[i]}

(* the distinct strings of strs in order of first appearance *)
FirstAppearance(strs) ==
    [k \in 1..Cardinality(FirstIndices(strs)) |->
        strs[CHOOSE i \in FirstIndices(strs) :
                 Cardinality({j \in FirstIndices(strs) : j < i}) = k - 1]]

(* a collection has been encoded and its bytes are as written *)
CollectionWritten == ckind = "collection" /\ cpc # "start" /\ cmod.kind = "none"

(* the string table in the written bytes: table_count at offset 5, the     *)
(* entries from offset 7                                                   *)
WrittenTable(b) == decode_string_table(b, 7, read_u16(b, 5).v, <<>>)

(* the ids the written indices refer to in the written table *)
WrittenIds(b) == ItemCollection_decode(b)

C24_Interning ==
    CollectionWritten =>
        /\ WrittenTable(cbytes).err = "Ok"
        /\ WrittenTable(cbytes).v = FirstAppearance(referenced_strings(cinput))
        /\ WrittenIds(cbytes).err = "Ok"
        /\ WrittenIds(cbytes).value = Some(cinput)

(* two items share a base id of 256 bytes and an operation id: the table   *)
(* is written with two entries, the first of them 255 bytes long           *)
C24_TruncatedEntry ==
    /\ CollectionWritten
    /\ Len(cinput) = 2
    /\ cinput[1] = cinput[2]
    /\ cinput[1].base_type_id = StrLong
    /\ WrittenTable(cbytes).err = "Ok"
    /\ WrittenTable(cbytes).v = <<SubSeq(StrLong, 1, 255), StrA>>

(***************************************************************************)
(* C25: collection decoding checks bounds: if any base_type_id_index or    *)
(* currency string_index in the input is >= string_table_count, decode     *)
(* returns InvalidStringIndex(that index) and no collection; a successful  *)
(* decode only ever yields ids taken from the decoded string table.        *)
(***************************************************************************)
(* the number of bytes written for a string *)
WrittenLen(s) == 1 + MinNat(Len(s), 255)

(* the offset at which the bytes of item k of an encoded collection start: *)
(* after magic, version, table_count, the table and items_count, and the   *)
(* items before it, each of 12 bytes and 3 bytes per operation             *)
ItemOffset(items, k) ==
    11 + SumSeq([i \in 1..Len(FirstAppearance(referenced_strings(items))) |->
                    WrittenLen(FirstAppearance(referenced_strings(items))[i])])
       + SumSeq([j \in 1..(k - 1) |-> 12 + (3 * Len(items[j].operations))])

(* the offsets of the index fields in reading order: of each item its      *)
(* base_type_id_index, then the string_index of each of its operations     *)
IndexFieldOffsets(items) ==
    {ItemOffset(items, k) : k \in 1..Len(items)}
        \cup UNION {{ItemOffset(items, k) + 13 + (3 * (o - 1)) :
                        o \in 1..Len(items[k].operations)} : k \in 1..Len(items)}

(* the index written at offset f *)
IndexAt(b, f) == u16_from_le_bytes(SubSeq(b, f + 1, f + 2))

(* the positions of the bytes that were overwritten *)
PatchedPositions == {cmod.at, cmod.also} \ {0}

(* a collection was decoded from bytes in which only bytes of the header   *)
(* (magic, version) and of index fields were overwritten: counts, table    *)
(* and operation types are as written and the index fields are where the   *)
(* encoder put them                                                        *)
IndicesPatched ==
    /\ cpc = "decoded"
    /\ ckind = "collection"
    /\ cmod.kind = "patched"
    /\ \A p \in PatchedPositions :
           \/ p <= 5
           \/ \E f \in IndexFieldOffsets(cinput) : p \in {f + 1, f + 2}

(* string_table_count of the input *)
TableCount(b) == read_u16(b, 5).v

OutOfRange(b, f) == IndexAt(b, f) >= TableCount(b)

(* the ids of a decoded collection *)
DecodedIds(items) ==
    {referenced_strings(items)[i] : i \in 1..Len(referenced_strings(items))}

TableEntries(b) == {WrittenTable(b).v[i] : i \in 1..Len(WrittenTable(b).v)}

IdsFromTable ==
    (cpc = "decoded" /\ ckind = "collection" /\ cdec.err = "Ok") =>
        DecodedIds(Unwrap(cdec.value)) \subseteq TableEntries(cbytes)

C25_InvalidStringIndex ==
    /\ IndicesPatched =>
           \A f \in IndexFieldOffsets(cinput) :
               OutOfRange(cbytes, f) =>
                   /\ cdec.err = "InvalidStringIndex"
                   /\ cdec.arg = IndexAt(cbytes, f)
                   /\ cdec.value = None
    /\ IdsFromTable

(* The same of the first error met in reading order: with the header as    *)
(* written, the first index field out of range is the one reported; and    *)
(* on any input, a reported InvalidStringIndex(i) has i >= the count of    *)
(* the table that was decoded.                                             *)
HeaderAsWritten(b) == Len(b) >= 5 /\ SubSeq(b, 1, 5) = COLLECTION_MAGIC \o <<BINARY_VERSION>>

C25_FirstInvalidStringIndex ==
    /\ (IndicesPatched /\ HeaderAsWritten(cbytes)) =>
           \A f \in IndexFieldOffsets(cinput) :
               ( /\ OutOfRange(cbytes, f)
                 /\ \A g \in IndexFieldOffsets(cinput) : g < f => ~OutOfRange(cbytes, g) ) =>
                   /\ cdec.err = "InvalidStringIndex"
                   /\ cdec.arg = IndexAt(cbytes, f)
                   /\ cdec.value = None
    /\ (cpc = "decoded" /\ ckind = "collection" /\ cdec.err = "InvalidStringIndex") =>
           /\ cdec.value = None
           /\ WrittenTable(cbytes).err = "Ok"
           /\ cdec.arg >= Len(WrittenTable(cbytes).v)
    /\ IdsFromTable

(* an operation's index overwritten to 2 in a collection whose table has   *)
(* two entries                                                             *)
C25_Witness ==
    /\ IndicesPatched
    /\ HeaderAsWritten(cbytes)
    /\ Len(cinput) = 1
    /\ Len(cinput[1].operations) = 1
    /\ TableCount(cbytes) = 2
    /\ ~OutOfRange(cbytes, ItemOffset(cinput, 1))
    /\ IndexAt(cbytes, ItemOffset(cinput, 1) + 13) = 2
    /\ cdec.err = "InvalidStringIndex"
    /\ cdec.arg = 2

(***************************************************************************)
(* C26: truncated input: decoding any strict prefix of a valid single-item *)
(* encoding or of a valid collection encoding (cut at any byte position,   *)
(* including inside the magic, a string or an integer) fails with          *)
(* DecodeError::UnexpectedEof.                                             *)
(***************************************************************************)
(* decode has run on a strict prefix of the encoder's output *)
PrefixDecoded == cpc = "decoded" /\ cmod.kind = "truncated"

C26_TruncatedIsUnexpectedEof ==
    PrefixDecoded => (cdec.err = "UnexpectedEof" /\ cdec.value = None)

(* a collection cut inside the magic: the error is DecodeError::Io *)
C26_CutInsideMagic ==
    /\ PrefixDecoded
    /\ ckind = "collection"
    /\ cmod.at = 3
    /\ cbytes = SubSeq(COLLECTION_MAGIC, 1, 3)
    /\ cdec.err = "Io"

(***************************************************************************)
(* C27: header validation precedes all other decoding: a single-item input *)
(* whose first byte n is not 1 fails with InvalidVersion(n); a collection  *)
(* input whose first four bytes are not "LOOT" fails with InvalidMagic,    *)
(* and otherwise one whose version byte n is not 1 fails with              *)
(* InvalidVersion(n), in each case regardless of the bytes that follow.    *)
(***************************************************************************)
FailsWith(e, arg) == cdec.err = e /\ cdec.arg = arg /\ cdec.value = None

C27_HeaderValidation ==
    /\ (cpc = "decoded" /\ ckind = "item" /\ Len(cbytes) >= 1 /\ cbytes[1] # 1) =>
           FailsWith("InvalidVersion", cbytes[1])
    /\ (cpc = "decoded" /\ ckind = "collection" /\ Len(cbytes) >= 4) =>
           IF SubSeq(cbytes, 1, 4) # <<76, 79, 79, 84>>
           THEN FailsWith("InvalidMagic", 0)
           ELSE (Len(cbytes) >= 5 /\ cbytes[5] # 1) => FailsWith("InvalidVersion", cbytes[5])

(* a collection whose version byte is overwritten with 2 and whose first   *)
(* item index is overwritten too, out of range                             *)
C27_Witness ==
    /\ cpc = "decoded"
    /\ ckind = "collection"
    /\ cmod = [kind |-> "patched", at |-> 5, also |-> ItemOffset(cinput, 1) + 2]
    /\ Len(cinput) = 1
    /\ cbytes[5] = 2
    /\ OutOfRange(cbytes, ItemOffset(cinput, 1))
    /\ FailsWith("InvalidVersion", 2)

(***************************************************************************)
(* C28: decoding an item or collection that references a base type id      *)
(* absent from the current Config produces a decode error that carries     *)
(* that id (BaseTypeNotFound(id)), and no partial item or collection is    *)
(* returned.                                                               *)
(***************************************************************************)
(* the base type ids of the Config, as stored *)
ConfigBaseTypeIds == {as_bytes(id) : id \in DOMAIN BaseTypes}

(* the encoded value references a base type id absent from the Config *)
ReferencesAbsentBase == \E k \in 1..Len(cinput) : cinput[k].base_type_id \notin ConfigBaseTypeIds

C28_BaseTypeNotFound ==
    (RoundTripped /\ ReferencesAbsentBase) =>
        (cdec.err = "BaseTypeNotFound" /\ cdec.value = None)

(* a collection of two items with base ids "a" and "bc", neither of them   *)
(* in the Config, is decoded and returned whole                            *)
C28_AbsentBaseDecoded ==
    /\ RoundTripped
    /\ ckind = "collection"
    /\ Len(cinput) = 2
    /\ cinput[1].base_type_id = StrA
    /\ cinput[2].base_type_id = StrBC
    /\ {StrA, StrBC} \cap ConfigBaseTypeIds = {}
    /\ cdec.err = "Ok"
    /\ cdec.value = Some(cinput)

(***************************************************************************)
(* C29: sharing one Generator between concurrent workers is safe: when     *)
(* several workers each apply arbitrary sequences of generate /            *)
(* apply_currency / reconstruct to their own items with their own RNGs,    *)
(* every interleaving gives each worker the same results as running its    *)
(* sequence alone, and the Config is never modified by any operation.      *)
(***************************************************************************)
CallsOf(w) == [i \in 1..Len(wdone[w]) |-> wdone[w][i].call]
ResultsOf(w) == [i \in 1..Len(wdone[w]) |-> wdone[w][i].result]

Count(opt) == IF IsSome(opt) THEN 1 ELSE 0

(* the defenses of a base, none configured when the base has no table *)
DefensesOf(base) ==
    IF IsSome(base.defenses) THEN Unwrap(base.defenses)
    ELSE [armour |-> None, evasion |-> None, energy_shield |-> None]

(* a rolled part is present iff configured, lies in the range, and is the  *)
(* draw number k (from 0) of the RNG seeded with seed                      *)
RolledAs(value, range, seed, k) ==
    IF IsSome(range)
    THEN /\ IsSome(value)
         /\ Unwrap(value) \in Unwrap(range).min..Unwrap(range).max
         /\ Unwrap(value) = DrawnInRange(make_rng(seed), k, Unwrap(range).min,
                                         Unwrap(range).max)
    ELSE value = None

ImplicitValue(it) == IF IsSome(it.implicit) THEN Some(Unwrap(it.implicit).value) ELSE None

GeneratedFrom(base, seed, it) ==
    /\ it.rarity = "normal"
    /\ it.prefixes = <<>>
    /\ it.suffixes = <<>>
    /\ it.operations = <<>>
    /\ it.name = base.name
    /\ RolledAs(ImplicitValue(it), base.implicit, seed, 0)
    /\ RolledAs(it.defenses.armour, DefensesOf(base).armour, seed, Count(base.implicit))
    /\ RolledAs(it.defenses.evasion, DefensesOf(base).evasion, seed,
                Count(base.implicit) + Count(DefensesOf(base).armour))
    /\ RolledAs(it.defenses.energy_shield, DefensesOf(base).energy_shield, seed,
                Count(base.implicit) + Count(DefensesOf(base).armour)
                    + Count(DefensesOf(base).evasion))

GeneratedAsClaimed(base_types, base_type_id, seed, out) ==
    IF base_type_id \in DOMAIN base_types
    THEN IsSome(out) /\ GeneratedFrom(base_types[base_type_id], seed, Unwrap(out))
    ELSE out = None

C30_Generate ==
    [][\A b \in ShapeIdInputs, s \in ShapeSeedInputs :
           GenerateShape(b, s) => GeneratedAsClaimed(ShapeBaseTypes, b, s, item')]_vars

(* a base with an implicit and all three defenses, generated with values   *)
(* above the minimum of every range                                        *)
C30_Witness ==
    /\ pc = "normal"
    /\ Unwrap(item).base_type_id = "iaes"
    /\ Unwrap(Unwrap(item).implicit).value > 1
    /\ Unwrap(Unwrap(item).defenses.armour) > 2
    /\ Unwrap(Unwrap(item).defenses.evasion) > 1
    /\ Unwrap(Unwrap(item).defenses.energy_shield) > 5

(***************************************************************************)
(* C31                                                                     *)
(***************************************************************************)
(* the stateful apply on the clone of the item the caller passed to the    *)
(* last pure apply                                                         *)
AppliedOnClone(currency) ==
    apply_currency(order, Unwrap(ret.before), currency,
                   replay_rng(order, Unwrap(ret.before)).rng)

(* the item and the RNG that reach the add_specific_affix stage: the       *)
(* stages of the currency that come before it                              *)
BeforeSpecificStage(currency) ==
    AppliedOnClone([currency EXCEPT !.effects.add_specific_affix = <<>>,
                                    !.effects.try_unique = FALSE])

(* the candidates of the list that can be added to the item it *)
ValidSpecific(it, candidates) ==
    SelectSeq(candidates, LAMBDA c :
        /\ c.id \in DOMAIN Affixes
        /\ c.id \notin ExistingIds(it)
        /\ (Affixes[c.id].allowed_classes = {} \/ it.class \in Affixes[c.id].allowed_classes)
        /\ Len(ListOfKind(it, Some(Affixes[c.id].affix_type)))
               < (IF Affixes[c.id].affix_type = "prefix" THEN max_prefixes(it.rarity)
                  ELSE max_suffixes(it.rarity)))

(* the candidate the stage provides: the only valid one, or the one whose  *)
(* weight interval holds the draw over the total weight                    *)
ProvidedSpecific(valid, rng) ==
    LET total == SumSeq([i \in 1..Len(valid) |-> valid[i].weight])
        d == gen_range(rng, 0, total - 1).v
        before_i(i) == SumSeq([k \in 1..(i - 1) |-> valid[k].weight])
    IN IF Len(valid) = 1 \/ total = 0 THEN valid[1]
       ELSE valid[CHOOSE i \in 1..Len(valid) :
                      before_i(i) <= d /\ d < before_i(i) + valid[i].weight]

TiersNumbered(affix_id, t) ==
    SelectSeq(Affixes[affix_id].tiers, LAMBDA x : x.tier = t)

AscendingIds == <<"a_flaming", "b_sturdy", "c_swift", "d_warding", "e_sage", "f_hollow">>

(* the candidates of a roll, ordered by id ascending *)
CandidatesAscending(it, affix_type, pools) ==
    SelectSeq(AscendingIds, LAMBDA id :
        \E i \in 1..Len(candidate_affixes(order, it.class, it.tags, affix_type,
                                          ExistingIds(it), pools)) :
            candidate_affixes(order, it.class, it.tags, affix_type,
                              ExistingIds(it), pools)[i] = id)

(* the candidate whose cumulative-weight interval, in the order of cands,  *)
(* contains the draw d                                                     *)
InIntervalOf(cands, tags, d) ==
    LET w(i) == calculate_weight(Affixes[cands[i]], tags)
        below(i) == SumSeq([k \in 1..(i - 1) |-> w(k)])
    IN cands[CHOOSE i \in 1..Len(cands) : below(i) <= d /\ d < below(i) + w(i)]

TotalWeight(cands, tags) ==
    SumSeq([k \in 1..Len(cands) |-> calculate_weight(Affixes[cands[k]], tags)])

(* the kind that add_random_affix rolls first on an item with both kinds   *)
(* free, and the RNG after that choice                                     *)
FirstKind(rng) ==
    [kind |-> IF gen_bool(rng).v THEN "prefix" ELSE "suffix", rng |-> gen_bool(rng).rng]

(* C32: the affix a roll selects is the candidate whose cumulative-weight  *)
(* interval, with the candidates in ascending order of id, contains the    *)
(* draw: checked on the first roll of transmute applied to a normal item   *)
(* in reconstruct, where the RNG the roll starts from is known.            *)
C32_SelectionInAscendingIdOrder ==
    (/\ rlast.cid = "transmute"
     /\ rlast.err = "Ok"
     /\ Unwrap(rlast.before).rarity = "normal") =>
        LET before == Unwrap(rlast.before)
            first == FirstKind(rlast.rng_before)
            pools == Currencies["transmute"].effects.affix_pools
            cands == CandidatesAscending(before, first.kind, pools)
            total == TotalWeight(cands, before.tags)
            rolled == ListOfKind(Unwrap(ritem), Some(first.kind))
        IN (cands # <<>> /\ total > 0 /\ rolled # <<>>) =>
               rolled[1].affix_id
                   = InIntervalOf(cands, before.tags, gen_range(first.rng, 0, total - 1).v)

(* a first roll among two candidates, a_flaming and b_sturdy, made by a    *)
(* Generator whose affix table iterates from f_hollow to a_flaming         *)
C32_RolledInTableOrder ==
    /\ rlast.cid = "transmute"
    /\ rlast.err = "Ok"
    /\ order[1] = "f_hollow"
    /\ Unwrap(rlast.before).rarity = "normal"
    /\ Unwrap(rlast.before).base_type_id = "iron_sword"
    /\ Len(Unwrap(ritem).prefixes) = 1
    /\ FirstKind(rlast.rng_before).kind = "prefix"

(***************************************************************************)
(* C33                                                                     *)
(***************************************************************************)
(* the ids of the known pools among pools *)
PoolUnion(pools) ==
    UNION { {AffixPools[pools[i]].affixes[j] : j \in 1..Len(AffixPools[pools[i]].affixes)}
            : i \in {k \in 1..Len(pools) : pools[k] \in DOMAIN AffixPools} }

(* the candidate set of the roll in: kind, class, not on the item, in the  *)
(* pools when pools are given, no tags or a tag shared with the item       *)
CandidateSet(in) ==
    {id \in DOMAIN Affixes :
        /\ Affixes[id].affix_type = in.affix_type
        /\ Affixes[id].allowed_classes = {} \/ in.class \in Affixes[id].allowed_classes
        /\ id \notin in.existing_affix_ids
        /\ in.pools # <<>> => id \in PoolUnion(in.pools)
        /\ Affixes[id].tags = {} \/ Affixes[id].tags \cap in.item_tags # {}}

(* the candidate set in the order the roll walks it *)
CandidatesInTableOrder(in) == SelectSeq(order, LAMBDA id : id \in CandidateSet(in))

(* the affix the roll chooses with its first draw *)
ChosenAffix(in) ==
    InIntervalOf(CandidatesInTableOrder(in), in.item_tags,
                 gen_range(in.rng, 0,
                           TotalWeight(CandidatesInTableOrder(in), in.item_tags) - 1).v)

(* C33: a modifier returned by roll_affix_from_pools names an affix of the *)
(* candidate set (kind, not among the existing ids, in the union of the    *)
(* known listed pools when pools is non-empty, no tags or a shared tag);   *)
(* the roll returns nothing when the candidate set is empty, when its      *)
(* total weight is 0, and when the chosen affix has no tier with min_ilvl  *)
(* <= item_level.                                                          *)
C33_RollFromCandidateSet ==
    pin.op = "roll_affix_from_pools" =>
        /\ IsSome(pout.mod) =>
               /\ Unwrap(pout.mod).affix_id \in CandidateSet(pin)
               /\ Affixes[Unwrap(pout.mod).affix_id].affix_type = pin.affix_type
               /\ Unwrap(pout.mod).affix_id \notin pin.existing_affix_ids
               /\ pin.pools # <<>> =>
                      \E i \in 1..Len(pin.pools) :
                          /\ pin.pools[i] \in DOMAIN AffixPools
                          /\ \E j \in 1..Len(AffixPools[pin.pools[i]].affixes) :
                                 AffixPools[pin.pools[i]].affixes[j] = Unwrap(pout.mod).affix_id
        /\ CandidateSet(pin) = {} => pout.mod = None
        /\ (CandidateSet(pin) # {}
              /\ TotalWeight(CandidatesInTableOrder(pin), pin.item_tags) = 0)
               => pout.mod = None
        /\ (CandidateSet(pin) # {}
              /\ TotalWeight(CandidatesInTableOrder(pin), pin.item_tags) > 0
              /\ \A k \in 1..Len(Affixes[ChosenAffix(pin)].tiers) :
                     Affixes[ChosenAffix(pin)].tiers[k].min_ilvl > pin.item_level)
               => pout.mod = None

(* a roll with an unknown pool among its pools, on an item that holds an   *)
(* affix of the pools, that returns a modifier                             *)
C33_Witness ==
    /\ pin.op = "roll_affix_from_pools"
    /\ pin.pools = BothPools
    /\ pin.existing_affix_ids = {"d_warding", "e_sage"}
    /\ pin.affix_type = "suffix"
    /\ IsSome(pout.mod)
    /\ Cardinality(CandidateSet(pin)) = 1

(***************************************************************************)
(* C34                                                                     *)
(***************************************************************************)
(* a currency whose last effect is remove_affixes: no reroll, no added     *)
(* affix, no unique transformation after it                                *)
RemoveLast(cid) ==
    /\ cid \in DOMAIN Currencies
    /\ IsSome(Currencies[cid].effects.remove_affixes)
    /\ Currencies[cid].effects.reroll_affixes = None
    /\ Currencies[cid].effects.add_affixes = None
    /\ Currencies[cid].effects.add_specific_affix = <<>>
    /\ ~Currencies[cid].effects.try_unique

(* the item and the RNG that reach the remove_affixes stage *)
BeforeRemoveStage(o, it, cid, rng) ==
    apply_currency(o, it, [Currencies[cid] EXCEPT !.effects.remove_affixes = None], rng)

(* the list without its element number i (0-based): the others in order *)
Without(s, i) == [j \in 1..(Len(s) - 1) |-> IF j <= i THEN s[j] ELSE s[j + 1]]

(* n removals, each by one draw i over the current number of modifiers:    *)
(* prefix[i] if i < prefix_count, else suffix[i - prefix_count]            *)
RECURSIVE RemovedByDraws(_, _, _)
RemovedByDraws(it, rng, n) ==
    IF n = 0 THEN [item |-> it, rng |-> rng]
    ELSE LET i == gen_index(rng, Len(it.prefixes) + Len(it.suffixes)) IN
         RemovedByDraws(IF i.v < Len(it.prefixes)
                        THEN [it EXCEPT !.prefixes = Without(@, i.v)]
                        ELSE [it EXCEPT !.suffixes = Without(@, i.v - Len(it.prefixes))],
                        i.rng, n - 1)

(* C34: remove_affixes(n) on an item holding k modifiers at that stage, in *)
(* an application whose requirements hold: with k >= n the application     *)
(* succeeds and the item is the stage's item after n removals by draw; with*)
(* k < n it fails with NoAffixesToRemove; it fails in no other way.  In    *)
(* the stateful apply of reconstruct, where the RNG is known, and in the   *)
(* pure apply.                                                             *)
C34_RemoveAffixes ==
    /\ (RemoveLast(rlast.cid)
          /\ check_requirements(Unwrap(rlast.before), Currencies[rlast.cid]) = "Ok") =>
           LET st == BeforeRemoveStage(order, Unwrap(rlast.before), rlast.cid, rlast.rng_before)
               n == Unwrap(Currencies[rlast.cid].effects.remove_affixes)
               k == Len(AllMods(st.item))
           IN /\ k >= n =>
                    /\ rlast.err = "Ok"
                    /\ Unwrap(ritem) = RemovedByDraws(st.item, st.rng, n).item
                    /\ rrng = RemovedByDraws(st.item, st.rng, n).rng
                    /\ Len(AllMods(Unwrap(ritem))) = k - n
              /\ k < n => rlast.err = "NoAffixesToRemove"
              /\ rlast.err \in {"Ok", "NoAffixesToRemove"}
    /\ (RemoveLast(ret.cid)
          /\ check_requirements(Unwrap(ret.before), Currencies[ret.cid]) = "Ok") =>
           LET st == BeforeRemoveStage(order, Unwrap(ret.before), ret.cid,
                                       replay_rng(order, Unwrap(ret.before)).rng)
               n == Unwrap(Currencies[ret.cid].effects.remove_affixes)
               k == Len(AllMods(st.item))
           IN /\ k >= n =>
                    /\ ret.res = "Ok"
                    /\ Derived(Unwrap(ret.value))
                           = Derived(RemovedByDraws(st.item, st.rng, n).item)
              /\ k < n => ret.res = "NoAffixesToRemove"
              /\ ret.res \in {"Ok", "NoAffixesToRemove"}

(* shatter, which removes 2, in reconstruct on a rare item made by alchemy *)
(* that holds prefixes and suffixes: two draws, the second over one fewer  *)
C34_Witness ==
    /\ rlast.cid = "shatter"
    /\ rlast.err = "Ok"
    /\ Len(Unwrap(rlast.before).prefixes) >= 2
    /\ Len(Unwrap(rlast.before).suffixes) >= 1
    /\ Len(AllMods(Unwrap(ritem))) = Len(AllMods(Unwrap(rlast.before))) - 2
    /\ Unwrap(ritem).prefixes # <<>>
    /\ Unwrap(ritem).prefixes[1] # Unwrap(rlast.before).prefixes[1]

(***************************************************************************)
(* C35                                                                     *)
(***************************************************************************)
(* a currency whose last effect is one reroll_affixes step *)
RerollLast(currency) ==
    /\ currency.effects.reroll_affixes = Some(1)
    /\ currency.effects.add_affixes = None
    /\ currency.effects.add_specific_affix = <<>>
    /\ ~currency.effects.try_unique

(* the item and the RNG that reach the reroll_affixes stage *)
BeforeRerollStage(o, it, currency, rng) ==
    apply_currency(o, it, [currency EXCEPT !.effects.reroll_affixes = None], rng)

(* the step's deletion, by one draw over the modifiers of it: the kind of  *)
(* the deleted modifier, the item without it, the RNG after the draw       *)
DeletedByDraw(it, rng) ==
    LET i == gen_index(rng, Len(it.prefixes) + Len(it.suffixes)) IN
    IF i.v < Len(it.prefixes)
    THEN [kind |-> "prefix", item |-> [it EXCEPT !.prefixes = Without(@, i.v)], rng |-> i.rng]
    ELSE [kind |-> "suffix",
          item |-> [it EXCEPT !.suffixes = Without(@, i.v - Len(it.prefixes))], rng |-> i.rng]

OtherKind(kind) == IF kind = "prefix" THEN "suffix" ELSE "prefix"

(* the replacement roll of the step, as an input of roll_affix_from_pools *)
ReplacementRoll(del, currency) ==
    [class |-> del.item.class, item_tags |-> del.item.tags, affix_type |-> del.kind,
     existing_affix_ids |-> ExistingIds(del.item),
     pools |-> currency.effects.affix_pools,
     item_level |-> del.item.requirements.level, rng |-> del.rng]

(* C35: a reroll_affixes step on an item with a modifier succeeds; neither *)
(* count increases, the list of the other kind is unchanged, the list of   *)
(* the deleted modifier's kind is the list without it, or that list with   *)
(* one modifier of a candidate of the currency's pools appended; when the  *)
(* slot stays empty although the roll had candidates to draw among, the    *)
(* roll's draw stays consumed: the RNG the call leaves for the stages and  *)
(* operations that follow is one word past the deletion's draw.            *)
C35_RerollStep ==
    (/\ pin.op = "apply_currency"
     /\ RerollLast(pin.currency)
     /\ check_requirements(pin.item, pin.currency) = "Ok"
     /\ BeforeRerollStage(order, pin.item, pin.currency, pin.rng).err = "Ok"
     /\ AllMods(BeforeRerollStage(order, pin.item, pin.currency, pin.rng).item) # <<>>) =>
        LET st == BeforeRerollStage(order, pin.item, pin.currency, pin.rng)
            del == DeletedByDraw(st.item, st.rng)
            in == ReplacementRoll(del, pin.currency)
            v == pout.item
            kept == ListOfKind(del.item, Some(del.kind))
            now == ListOfKind(v, Some(del.kind))
        IN /\ pout.err = "Ok"
           /\ Len(v.prefixes) <= Len(st.item.prefixes)
           /\ Len(v.suffixes) <= Len(st.item.suffixes)
           /\ ListOfKind(v, Some(OtherKind(del.kind)))
                  = ListOfKind(st.item, Some(OtherKind(del.kind)))
           /\ \/ now = kept
              \/ /\ Len(now) = Len(kept) + 1
                 /\ SubSeq(now, 1, Len(kept)) = kept
                 /\ now[Len(now)].affix_id \in CandidateSet(in)
           /\ CandidateSet(in) = {} => now = kept /\ pout.rng = del.rng
           /\ (now = kept /\ CandidateSet(in) # {}
                 /\ TotalWeight(CandidatesInTableOrder(in), in.item_tags) > 0)
                  => pout.rng = [del.rng EXCEPT !.pos = @ + 1]

(* chaos on a helmet whose only modifier is d_warding: the replacement     *)
(* roll draws e_sage, which has no tier open to the helmet's level, the    *)
(* suffix slot stays empty and the RNG is 3 words on (2 for the index)     *)
C35_Witness ==
    /\ pin.op = "apply_currency"
    /\ pin.currency = Currencies["chaos"]
    /\ pout.err = "Ok"
    /\ pin.item.class = "helmet"
    /\ Len(pin.item.suffixes) = 1
    /\ pin.item.prefixes = <<>>
    /\ AllMods(pout.item) = <<>>
    /\ pout.rng.pos = pin.rng.pos + 3

(***************************************************************************)
(* C36                                                                     *)
(***************************************************************************)
TriesUnique(cid) == cid \in DOMAIN Currencies /\ Currencies[cid].effects.try_unique

(* the item and the RNG that reach the try_unique stage *)
BeforeUniqueStage(o, it, cid, rng) ==
    apply_currency(o, it, [Currencies[cid] EXCEPT !.effects.try_unique = FALSE], rng)

(* the matching recipes, in configuration order *)
MatchingInOrder(it) == SelectSeq(UniqueRecipes, LAMBDA r : Matching(r, it))

(* the unique an item was transformed into, by its display name *)
UniqueNamed(name) == CHOOSE u \in {Uniques[id] : id \in UniqueIds} : u.name = name

(* one range draw per mod, in mod order, starting at rng: the drawn values *)
(* and the RNG after the last draw                                         *)
RECURSIVE RangeDraws(_, _, _)
RangeDraws(mods, rng, i) ==
    IF i > Len(mods) THEN [vals |-> <<>>, rng |-> rng]
    ELSE LET d == gen_range(rng, mods[i].min, mods[i].max)
             rest == RangeDraws(mods, d.rng, i + 1)
         IN [vals |-> <<d.v>> \o rest.vals, rng |-> rest.rng]

(* mod number i (from 1) of the unique takes its value from the draw alone *)
(* under this recipe: no mapping targets it, or the first one that does is *)
(* Random, has influence 0 or names a stat the item did not carry          *)
ValueIsDraw(recipe, i, it) ==
    LET found == SelectSeq(recipe.mappings, LAMBDA m : m.to_mod_index = i - 1) IN
    \/ found = <<>>
    \/ found[1].mode = "random"
    \/ found[1].influence.num <= 0
    \/ \A j \in 1..Len(AllMods(it)) : AllMods(it)[j].stat # found[1].from_stat

(* C36: a try_unique stage that returns makes no draw when no recipe       *)
(* matches; otherwise it makes the recipe draw and then one range draw in  *)
(* [mod.min, mod.max] per unique mod, in mod order, mapped or not: the RNG *)
(* ends 1 + (number of mods) draws on, each value lies in its mod's range  *)
(* and a value that comes from the draw alone is the draw of its position. *)
C36_OneDrawPerUniqueMod ==
    (/\ TriesUnique(rlast.cid)
     /\ check_requirements(Unwrap(rlast.before), Currencies[rlast.cid]) = "Ok"
     /\ BeforeUniqueStage(order, Unwrap(rlast.before), rlast.cid, rlast.rng_before).err = "Ok"
     /\ rlast.err # "Panic") =>
        LET st == BeforeUniqueStage(order, Unwrap(rlast.before), rlast.cid, rlast.rng_before)
            matching == MatchingInOrder(st.item)
            now == Unwrap(ritem)
        IN IF matching = <<>>
           THEN rlast.err = "NoMatchingRecipe" /\ rrng = st.rng
           ELSE /\ rlast.err = "Ok"
                /\ LET mods == UniqueNamed(now.name).mods
                       sel == gen_range(st.rng, 0,
                                  SumSeq([i \in 1..Len(matching) |-> matching[i].weight]) - 1)
                       dr == RangeDraws(mods, sel.rng, 1)
                   IN /\ Len(now.prefixes) = Len(mods)
                      /\ rrng = dr.rng
                      /\ rrng.pos = st.rng.pos + 1 + Len(mods)
                      /\ \A i \in 1..Len(mods) :
                            /\ now.prefixes[i].stat = mods[i].stat
                            /\ now.prefixes[i].value \in mods[i].min..mods[i].max
                            /\ \A k \in 1..Len(matching) :
                                  (Uniques[matching[k].unique_id].name = now.name
                                      /\ ValueIsDraw(matching[k], i, st.item))
                                   => now.prefixes[i].value = dr.vals[i]

(* an iron sword carrying a fire prefix and a life modifier becomes        *)
(* Emberbrand: both of its mods are mapped, the second with influence 1,   *)
(* and the RNG still ends three draws after the stage began                *)
C36_Witness ==
    /\ TriesUnique(rlast.cid)
    /\ rlast.err = "Ok"
    /\ Unwrap(ritem).name = <<"Emberbrand">>
    /\ \E j \in 1..Len(AllMods(Unwrap(rlast.before))) :
           AllMods(Unwrap(rlast.before))[j].stat = "added_life"
    /\ rrng.pos = BeforeUniqueStage(order, Unwrap(rlast.before), rlast.cid,
                                    rlast.rng_before).rng.pos + 3

(***************************************************************************)
(* C37                                                                     *)
(***************************************************************************)
(* rounding of the quotient n / d to the nearest integer, halves away from *)
(* zero (n >= 0, d > 0)                                                    *)
RoundDiv(n, d) == (2 * n + d) \div (2 * d)

(* the mapping that decides mod number i (from 1) of a recipe, if any *)
MappingOf(recipe, i) == SelectSeq(recipe.mappings, LAMBDA m : m.to_mod_index = i - 1)

(* mod number i is a mapped mod blended with the draw: its mapping is      *)
(* Direct or Percentage, 0 < influence < 1, and the item carried the stat  *)
Blended(recipe, i, it) ==
    /\ MappingOf(recipe, i) # <<>>
    /\ MappingOf(recipe, i)[1].mode \in {"direct", "percentage"}
    /\ MappingOf(recipe, i)[1].influence.num > 0
    /\ MappingOf(recipe, i)[1].influence.num < MappingOf(recipe, i)[1].influence.den
    /\ \E j \in 1..Len(AllMods(it)) : AllMods(it)[j].stat = MappingOf(recipe, i)[1].from_stat

(* the mapped value of a blended mod: the mod's value under the same       *)
(* mapping with influence 1                                                *)
MappedValue(recipe, i, mod_cfg, it) ==
    unique_mod_value([recipe EXCEPT !.mappings =
                         <<[MappingOf(recipe, i)[1] EXCEPT !.influence = Influence(1, 1)]>>],
                     i - 1, mod_cfg, mod_cfg.min, stat_values(it))

(* the blends emitted by the try_unique stage just run in reconstruct:     *)
(* [value, mapped, r, influence, min, max] per blended mod                 *)
BlendsOfLastStep ==
    IF ~(/\ TriesUnique(rlast.cid)
         /\ rlast.err = "Ok"
         /\ Unwrap(ritem).rarity = "unique")
    THEN {}
    ELSE
      LET st == BeforeUniqueStage(order, Unwrap(rlast.before), rlast.cid, rlast.rng_before)
          matching == MatchingInOrder(st.item)
          now == Unwrap(ritem)
          mods == UniqueNamed(now.name).mods
          sel == gen_range(st.rng, 0,
                           SumSeq([i \in 1..Len(matching) |-> matching[i].weight]) - 1)
          recipe == matching[WeightedPick([i \in 1..Len(matching) |-> matching[i].weight],
                                          sel.v, 1)]
          dr == RangeDraws(mods, sel.rng, 1)
      IN { [value |-> now.prefixes[i].value,
            mapped |-> MappedValue(recipe, i, mods[i], st.item),
            r |-> dr.vals[i],
            influence |-> MappingOf(recipe, i)[1].influence,
            min |-> mods[i].min, max |-> mods[i].max] :
           i \in {j \in 1..Len(mods) : Blended(recipe, j, st.item)} }

(* C37: the value of a blended mod is influence * mapped + (1 - influence) *)
(* * r rounded to the nearest integer, clamped into [mod.min, mod.max]     *)
C37_BlendRoundsToNearest ==
    \A b \in BlendsOfLastStep :
        b.value = Clamp(RoundDiv(b.influence.num * b.mapped
                                   + (b.influence.den - b.influence.num) * b.r,
                                 b.influence.den),
                        b.min, b.max)

(* what the code emits: the blend with its fraction cut off; reached with  *)
(* a blend whose nearest integer is another one                            *)
C37_BlendTruncated ==
    \E b \in BlendsOfLastStep :
        /\ b.value = Clamp(TruncDiv(b.influence.num * b.mapped
                                      + (b.influence.den - b.influence.num) * b.r,
                                    b.influence.den),
                           b.min, b.max)
        /\ b.value # Clamp(RoundDiv(b.influence.num * b.mapped
                                      + (b.influence.den - b.influence.num) * b.r,
                                    b.influence.den),
                           b.min, b.max)

(***************************************************************************)
(* C38                                                                     *)
(***************************************************************************)
(* C38: an item that a successful application left with rarity normal has *)
(* its base name as display name and no prefixes and no suffixes, whatever *)
(* the currency's configuration                                            *)
C38_NormalIsBare ==
    (pin.op = "apply_currency" /\ pout.err = "Ok" /\ pout.item.rarity = "normal") =>
        /\ pout.item.name = pout.item.base_name
        /\ pout.item.prefixes = <<>>
        /\ pout.item.suffixes = <<>>

(* a rare item became normal under set_rarity alone: it keeps its rolled   *)
(* name and its modifiers                                                  *)
C38_NormalKeepsAffixes ==
    /\ pin.op = "apply_currency"
    /\ pin.item.rarity = "rare"
    /\ pin.currency.effects.set_rarity = Some("normal")
    /\ ~pin.currency.effects.clear_affixes
    /\ pout.err = "Ok"
    /\ pout.item.rarity = "normal"
    /\ pout.item.name = pin.item.name
    /\ pout.item.name # pout.item.base_name
    /\ pout.item.prefixes = pin.item.prefixes
    /\ pout.item.suffixes = pin.item.suffixes
    /\ AllMods(pout.item) # <<>>

(***************************************************************************)
(* C39                                                                     *)
(***************************************************************************)
(* b differs from a at most in name, rarity, prefixes, suffixes and the    *)
(* operation log                                                           *)
SameFrame(a, b) ==
    /\ b.base_type_id = a.base_type_id
    /\ b.seed = a.seed
    /\ b.base_name = a.base_name
    /\ b.class = a.class
    /\ b.tags = a.tags
    /\ b.requirements = a.requirements
    /\ b.implicit = a.implicit
    /\ b.defenses = a.defenses
    /\ b.damage = a.damage
    /\ [b EXCEPT !.name = a.name, !.rarity = a.rarity, !.prefixes = a.prefixes,
                 !.suffixes = a.suffixes, !.operations = a.operations] = a

(* C39: no currency application, successful or failed, changes the item's  *)
(* base_type_id, seed, base_name, class, tags, requirements, implicit,     *)
(* defenses or damage: the item returned by Generator::apply_currency, the *)
(* caller's item after it, and the item the stateful apply worked on in    *)
(* reconstruct differ from the input at most in name, rarity, prefixes,    *)
(* suffixes and operations.                                                *)
C39_Frame ==
    /\ (IsSome(ret.before) /\ IsSome(ret.arg)) =>
           /\ SameFrame(Unwrap(ret.before), Unwrap(ret.arg))
           /\ IsSome(ret.value) => SameFrame(Unwrap(ret.before), Unwrap(ret.value))
    /\ (rlast.cid # "" /\ IsSome(rlast.before) /\ IsSome(ritem)) =>
           SameFrame(Unwrap(rlast.before), Unwrap(ritem))

(* a successful application that became a unique: name, rarity, prefixes   *)
(* and the operation log all changed, on an item with an implicit and      *)
(* weapon damage                                                           *)
C39_Witness ==
    /\ ret.res = "Ok"
    /\ IsSome(ret.value)
    /\ Unwrap(ret.value).rarity = "unique"
    /\ Unwrap(ret.value).name # Unwrap(ret.before).name
    /\ Unwrap(ret.value).prefixes # Unwrap(ret.before).prefixes
    /\ Unwrap(ret.value).operations # Unwrap(ret.before).operations
    /\ IsSome(Unwrap(ret.value).implicit)
    /\ IsSome(Unwrap(ret.value).damage)

(***************************************************************************)
(* C40                                                                     *)
(***************************************************************************)
(* C40: every currency application returns success or a CurrencyError;     *)
(* none aborts, neither Generator::apply_currency nor the stateful apply   *)
(* inside reconstruct                                                      *)
C40_NeverAborts ==
    /\ ret.res # "Panic"
    /\ rlast.err # "Panic"
    /\ pc # "crashed"

(* try_unique on an item whose matching recipes have weights summing to 0: *)
(* the recipe draw has an empty range and the application aborts           *)
C40_AbortOnZeroWeight ==
    /\ TriesUnique(ret.cid)
    /\ ret.res = "Panic"
    /\ pc = "crashed"
    /\ LET st == BeforeUniqueStage(order, Unwrap(ret.before), ret.cid,
                                   replay_rng(order, Unwrap(ret.before)).rng)
           matching == MatchingInOrder(st.item)
       IN /\ st.err = "Ok"
          /\ matching # <<>>
          /\ SumSeq([i \in 1..Len(matching) |-> matching[i].weight]) = 0

====
